---- MODULE Spec2Model ----
(***************************************************************************)
(* A model of whr-converter: the FHIR Patient -> HL7v2 converter           *)
(* (src/src/whr_converter/fhir_to_hl7.py, duplicated in                    *)
(* src/fhir_to_hl7_converter.py) and the flat-JSON -> HL7v2 converter      *)
(* (src/json_to_hl7_converter.py).                                         *)
(*                                                                         *)
(* Representation.  A Python str is a sequence of one-character strings,   *)
(* so that slicing, startswith, join and split are computed character by   *)
(* character.  A Python dict is a function whose domain is the set of keys *)
(* that are present: an absent key is absent from the domain.  A Python    *)
(* list is a sequence.  The empty str, the empty list and the empty dict   *)
(* are all the empty function << >>, which is exactly the set of values    *)
(* of these types that Python treats as false.                             *)
(***************************************************************************)
EXTENDS Integers, Sequences, FiniteSets, TLC

(***************************************************************************)
(* Bounds of the model.                                                    *)
(***************************************************************************)
MaxIdentifiers == 2
MaxNames == 2
MaxTelecom == 3
MaxAddresses == 2
MaxClock == 1
MaxPhoneLen == 3
MaxPages == 2

(***************************************************************************)
(* Python values and built-ins.                                            *)
(***************************************************************************)
Empty == << >>

\* None, and a JSON number, as values that are no str: a one-element
\* sequence whose element is not a character.
PyNone == << "<None>" >>
JsonNumber == << "<int>" >>

IsStr(v) == v # PyNone /\ v # JsonNumber

\* dict.get(k, default)
Get(d, k, default) == IF k \in DOMAIN d THEN d[k] ELSE default

\* bool(v) for a str, a list or a dict (a JSON number of the model is
\* non-zero, hence true)
Truthy(v) == DOMAIN v # {}

\* obj.attr = value on a segment: the field is created or overwritten
SetField(seg, k, v) == [x \in DOMAIN seg \cup {k} |-> IF x = k THEN v ELSE seg[x]]

\* the text of a field of a segment; a field never assigned is empty
Field(seg, k) == Get(seg, k, Empty)

RECURSIVE Join(_, _)
\* sep.join(parts)
Join(sep, parts) ==
    IF parts = << >> THEN << >>
    ELSE IF Len(parts) = 1 THEN parts[1]
    ELSE parts[1] \o sep \o Join(sep, Tail(parts))

RECURSIVE Split(_, _)
\* s.split(c) for a one-character separator c
Split(s, c) ==
    IF \A i \in 1..Len(s) : s[i] # c THEN << s >>
    ELSE LET k == CHOOSE i \in 1..Len(s) : s[i] = c /\ \A j \in 1..(i - 1) : s[j] # c
         IN  << SubSeq(s, 1, k - 1) >> \o Split(SubSeq(s, k + 1, Len(s)), c)

\* s.startswith(p)
StartsWith(s, p) == Len(s) >= Len(p) /\ SubSeq(s, 1, Len(p)) = p

\* s[n:]
SliceFrom(s, n) == SubSeq(s, n + 1, Len(s))

RECURSIVE Filter(_, _)
\* "".join(c for c in s if c in keep)
Filter(s, keep) ==
    IF s = << >> THEN << >>
    ELSE (IF Head(s) \in keep THEN << Head(s) >> ELSE << >>) \o Filter(Tail(s), keep)

RECURSIVE Remove(_, _)
\* s.replace(c, "") for a one-character c
Remove(s, c) ==
    IF s = << >> THEN << >>
    ELSE (IF Head(s) = c THEN << >> ELSE << Head(s) >>) \o Remove(Tail(s), c)

DigitSeq == << "0", "1", "2", "3", "4", "5", "6", "7", "8", "9" >>
Digits == {DigitSeq[i] : i \in 1..10}

\* c.isdigit(), on the ASCII characters the model draws
IsDigit(c) == c \in Digits

AllDigits(s) == \A i \in 1..Len(s) : IsDigit(s[i])

DigitVal(c) == (CHOOSE i \in 1..10 : DigitSeq[i] = c) - 1

RECURSIVE ToInt(_)
\* int(s) for a string of digits
ToInt(s) == IF s = << >> THEN 0 ELSE 10 * ToInt(SubSeq(s, 1, Len(s) - 1)) + DigitVal(s[Len(s)])

\* "%02d" % n
Pad2(n) == << DigitSeq[((n \div 10) % 10) + 1], DigitSeq[(n % 10) + 1] >>

\* "%d" % n for a year 1000..9999 (the C library's %Y does not pad)
Year4(n) == Pad2(n \div 100) \o Pad2(n % 100)

Lower == << "a", "b", "c", "d", "e", "f", "g", "h", "i", "j", "k", "l", "m",
            "n", "o", "p", "q", "r", "s", "t", "u", "v", "w", "x", "y", "z" >>
Upper == << "A", "B", "C", "D", "E", "F", "G", "H", "I", "J", "K", "L", "M",
            "N", "O", "P", "Q", "R", "S", "T", "U", "V", "W", "X", "Y", "Z" >>

UpperChar(c) ==
    IF \E i \in 1..26 : Lower[i] = c THEN Upper[CHOOSE i \in 1..26 : Lower[i] = c] ELSE c

\* s.upper()
StrUpper(s) == [i \in 1..Len(s) |-> UpperChar(s[i])]

(***************************************************************************)
(* String literals of the source.                                          *)
(***************************************************************************)
S_IHI == << "I", "H", "I" >>
S_MRN == << "M", "R", "N" >>
S_UNKNOWN == << "U", "N", "K", "N", "O", "W", "N" >>
S_usual == << "u", "s", "u", "a", "l" >>
S_old == << "o", "l", "d" >>
S_home == << "h", "o", "m", "e" >>
S_work == << "w", "o", "r", "k" >>
S_mobile == << "m", "o", "b", "i", "l", "e" >>
S_temp == << "t", "e", "m", "p" >>
S_temporary == << "t", "e", "m", "p", "o", "r", "a", "r", "y" >>
S_phone == << "p", "h", "o", "n", "e" >>
S_email == << "e", "m", "a", "i", "l" >>
S_fax == << "f", "a", "x" >>
S_PRN == << "P", "R", "N" >>
S_PH == << "P", "H" >>
S_NET == << "N", "E", "T" >>
S_Internet == << "I", "n", "t", "e", "r", "n", "e", "t" >>
S_Local == << "L", "o", "c", "a", "l" >>
S_MALE == << "M", "A", "L", "E" >>
S_FEMALE == << "F", "E", "M", "A", "L", "E" >>
S_AU == << "A", "U" >>
S_Dr == << "D", "r" >>
S_61 == << "6", "1" >>
S_plus61 == << "+", "6", "1" >>
S_07 == << "0", "7" >>
\* the suffix "000000+1000" of the birth date format
S_midnight_offset == << "0", "0", "0", "0", "0", "0", "+", "1", "0", "0", "0" >>
S_sending_app == << "F", "H", "I", "R", " ", "C", "o", "n", "v", "e", "r", "t", "e", "r" >>
S_sending_facility == << "F", "H", "I", "R", " ", "S", "y", "s", "t", "e", "m" >>
S_receiving_app == << "H", "L", "7", " ", "S", "y", "s", "t", "e", "m" >>
S_receiving_facility == << "H", "L", "7", " ", "F", "a", "c", "i", "l", "i", "t", "y" >>
S_encoding_chars == << "^", "~", "\\", "&" >>
S_ADT_A08 == << "A", "D", "T", "^", "A", "0", "8" >>
S_version_id ==
    << "2", ".", "3", ".", "1", "^", "A", "U", "S", "&", "&", "I", "S", "O",
       "^", "A", "S", "4", "7", "0", "0", ".", "2", "&", "&", "L" >>
S_A08 == << "A", "0", "8" >>
S_race == << "9", "^", "^", "N", "H", "D", "D", "V", "1", "0", "-", "0", "0", "0", "0", "0", "1" >>
S_pv1_8 ==
    << "F", "H", "I", "R", "^", "C", "o", "n", "v", "e", "r", "t", "e", "r", "^", "S", "y", "s", "t", "e", "m",
       "^", "^", "^", "D", "r", "^", "^", "^", "A", "U", "S",
       "H", "I", "C", "P", "R", "^", "L", "^", "^", "^", "U", "P", "I", "N" >>
S_beda_emr == << "B", "e", "d", "a", " ", "E", "M", "R" >>
S_the_practice == << "T", "h", "e", " ", "P", "r", "a", "c", "t", "i", "c", "e" >>
S_viewpoint == << "V", "i", "e", "w", "P", "o", "i", "n", "t" >>
S_json_pid_11 == << "^", "^", "^", "V", "I", "C", "^", "^", "^", "O" >>
S_doctor_suffix ==
    << "^", "D", "o", "c", "t", "o", "r", "^", "N", "a", "m", "e", "^", "^",
       "^", "D", "r", "^", "^", "^", "A", "U", "S", "H", "I", "C", "P", "R",
       "^", "L", "^", "^", "^", "U", "P", "I", "N" >>
S_NHDDV10 == << "^", "^", "N", "H", "D", "D", "V", "1", "0", "-", "0", "0", "0", "0", "0", "1" >>
S_PRN_PH == << "^", "P", "R", "N", "^", "P", "H" >>
S_PRN_PH_61_61 ==
    << "^", "P", "R", "N", "^", "P", "H", "^", "^", "6", "1", "^", "6", "1", "^" >>
S_NET_Internet == << "^", "N", "E", "T", "^", "I", "n", "t", "e", "r", "n", "e", "t", "^" >>
Caret == << "^" >>
Tilde == << "~" >>

(***************************************************************************)
(* FHIRToHL7Converter: the pure helpers.                                   *)
(***************************************************************************)

\* a variant of _map_telecom_use whose table is keyed by "temporary"
_map_telecom_use_temporary(fhir_use) ==
    IF fhir_use = S_home THEN << "H" >>
    ELSE IF fhir_use = S_work THEN << "W" >>
    ELSE IF fhir_use = S_mobile THEN << "M" >>
    ELSE IF fhir_use = S_temporary THEN << "T" >>
    ELSE IF fhir_use = S_old THEN << "O" >>
    ELSE S_PRN

\* _map_telecom_use: mapping.get(fhir_use, "PRN")
_map_telecom_use(fhir_use) ==
    IF fhir_use = S_home THEN << "H" >>
    ELSE IF fhir_use = S_work THEN << "W" >>
    ELSE IF fhir_use = S_mobile THEN << "M" >>
    ELSE IF fhir_use = S_temp THEN << "T" >>
    ELSE IF fhir_use = S_old THEN << "O" >>
    ELSE S_PRN

\* _get_ihi_system: "http://ns.electronichealth.net.au/id/hi/ihi/1.0"
_get_ihi_system ==
    << "h", "t", "t", "p", ":", "/", "/", "n", "s", ".",
       "e", "l", "e", "c", "t", "r", "o", "n", "i", "c", "h", "e", "a", "l", "t", "h", ".", "n", "e", "t", ".",
       "a", "u", "/", "i", "d", "/", "h", "i", "/", "i", "h", "i", "/", "1", ".", "0" >>

\* a variant of _get_patient_identifier without the search for an IHI
_get_patient_identifier_first(fhir_patient) ==
    LET identifiers == Get(fhir_patient, "identifier", Empty)
    IN  IF Truthy(identifiers)
        THEN Get(identifiers[1], "value", Empty)
        ELSE Get(fhir_patient, "id", S_UNKNOWN)

\* _get_patient_identifier
_get_patient_identifier(fhir_patient) ==
    LET identifiers == Get(fhir_patient, "identifier", Empty)
        isIHI(i) == Get(Get(identifiers[i], "type", Empty), "text", PyNone) = S_IHI
    IN  IF \E i \in 1..Len(identifiers) : isIHI(i)
        THEN LET k == CHOOSE i \in 1..Len(identifiers) :
                          isIHI(i) /\ \A j \in 1..(i - 1) : ~isIHI(j)
             IN  Get(identifiers[k], "value", Empty)
        ELSE IF Truthy(identifiers)
        THEN Get(identifiers[1], "value", Empty)
        ELSE Get(fhir_patient, "id", S_UNKNOWN)

\* a variant of _get_patient_name without the search for a usual name
_get_patient_name_first(fhir_patient) ==
    LET names == Get(fhir_patient, "name", Empty)
    IN  IF ~Truthy(names) THEN Empty ELSE names[1]

\* _get_patient_name; the None it returns for no names is modelled by the
\* empty dict, which the caller's "if name:" treats the same
_get_patient_name(fhir_patient) ==
    LET names == Get(fhir_patient, "name", Empty)
        isUsual(i) == Get(names[i], "use", PyNone) = S_usual
    IN  IF ~Truthy(names) THEN Empty
        ELSE IF \E i \in 1..Len(names) : isUsual(i)
        THEN names[CHOOSE i \in 1..Len(names) : isUsual(i) /\ \A j \in 1..(i - 1) : ~isUsual(j)]
        ELSE names[1]

\* _get_patient_address; None is modelled by the empty dict as above
_get_patient_address(fhir_patient) ==
    LET addresses == Get(fhir_patient, "address", Empty)
    IN  IF ~Truthy(addresses) THEN Empty ELSE addresses[1]

\* a variant of the phone f-string with the use code first
PhoneContact_use_first(value, hl7_use) ==
    hl7_use \o Caret \o value \o Caret \o S_PH \o Caret \o Caret \o S_61
            \o Caret \o S_07 \o Caret \o value

\* the f-string of a phone contact: value^use^PH^^61^07^value
PhoneContact(value, hl7_use) ==
    value \o Caret \o hl7_use \o Caret \o S_PH \o Caret \o Caret \o S_61
          \o Caret \o S_07 \o Caret \o value

\* the f-string of an email contact: value^NET^Internet^value
EmailContact(value) ==
    value \o Caret \o S_NET \o Caret \o S_Internet \o Caret \o value

RECURSIVE formatted_contacts(_)
\* the loop of _format_telecom: the list formatted_contacts
formatted_contacts(telecom_list) ==
    IF telecom_list = << >> THEN << >>
    ELSE LET contact == Head(telecom_list)
             system == Get(contact, "system", Empty)
             value == Get(contact, "value", Empty)
             use == Get(contact, "use", Empty)
             hl7_use == _map_telecom_use(use)
             this == IF ~Truthy(value) THEN << >>
                     ELSE IF system = S_phone THEN << PhoneContact(value, hl7_use) >>
                     ELSE IF system = S_email THEN << EmailContact(value) >>
                     ELSE << >>
         IN  this \o formatted_contacts(Tail(telecom_list))

\* _format_telecom
_format_telecom(telecom_list) ==
    IF ~Truthy(telecom_list) THEN Empty
    ELSE Join(Tilde, formatted_contacts(telecom_list))

RECURSIVE phone_contacts(_)
\* the loop of _get_additional_phones: the list phone_contacts
phone_contacts(telecom_list) ==
    IF telecom_list = << >> THEN << >>
    ELSE LET contact == Head(telecom_list)
             this == IF Get(contact, "system", PyNone) = S_phone
                        /\ Truthy(Get(contact, "value", Empty))
                     THEN << PhoneContact(Get(contact, "value", Empty),
                                          _map_telecom_use(Get(contact, "use", Empty))) >>
                     ELSE << >>
         IN  this \o phone_contacts(Tail(telecom_list))

\* _get_additional_phones: "~".join(phone_contacts[1:])
_get_additional_phones(telecom_list) ==
    Join(Tilde, SliceFrom(phone_contacts(telecom_list), 1))

(***************************************************************************)
(* datetime: the calendar, strptime("%Y-%m-%d"), and the clock.            *)
(***************************************************************************)
IsLeap(y) == (y % 4 = 0 /\ y % 100 # 0) \/ y % 400 = 0

DaysInMonth(y, m) ==
    IF m = 2 THEN (IF IsLeap(y) THEN 29 ELSE 28)
    ELSE IF m \in {4, 6, 9, 11} THEN 30
    ELSE 31

\* datetime.strptime(s, "%Y-%m-%d"): %Y is four digits, %m and %d are one
\* or two digits in range, nothing may remain, and the date must exist.
\* [ok |-> FALSE] stands for the ValueError.
strptime_ymd(s) ==
    LET parts == Split(s, "-")
        shape == /\ Len(parts) = 3
                 /\ Len(parts[1]) = 4 /\ AllDigits(parts[1])
                 /\ Len(parts[2]) \in {1, 2} /\ AllDigits(parts[2])
                 /\ Len(parts[3]) \in {1, 2} /\ AllDigits(parts[3])
    IN  IF ~shape THEN [ok |-> FALSE]
        ELSE LET y == ToInt(parts[1])
                 m == ToInt(parts[2])
                 d == ToInt(parts[3])
             IN  IF y >= 1 /\ m \in 1..12 /\ d >= 1 /\ d <= DaysInMonth(y, m)
                 THEN [ok |-> TRUE, year |-> y, month |-> m, day |-> d,
                       hour |-> 0, minute |-> 0, second |-> 0]
                 ELSE [ok |-> FALSE]

\* a variant of strftime_Ymd with the format "%d%m%Y"
strftime_dmY(dt) == Pad2(dt.day) \o Pad2(dt.month) \o Year4(dt.year)

\* dt.strftime("%Y%m%d")
strftime_Ymd(dt) == Year4(dt.year) \o Pad2(dt.month) \o Pad2(dt.day)

\* dt.strftime("%H%M%S")
strftime_HMS(dt) == Pad2(dt.hour) \o Pad2(dt.minute) \o Pad2(dt.second)

\* datetime.now() when the clock reads t: a naive local time, t seconds
\* after midnight of 2024-01-01
Now(t) == [ok |-> TRUE, year |-> 2024, month |-> 1, day |-> 1,
           hour |-> 0, minute |-> 0, second |-> t]

(***************************************************************************)
(* json_to_hl7_converter.py: the formatters.                               *)
(***************************************************************************)

\* map_gender_code, on patient_data.get("genderCode"): an absent key gives
\* None, which is no key of gender_map
map_gender_code(data) ==
    IF "genderCode" \notin DOMAIN data THEN << "U" >>
    ELSE LET gender_code == data["genderCode"]
         IN  IF gender_code = 1 THEN << "M" >>
             ELSE IF gender_code = 2 THEN << "F" >>
             ELSE IF gender_code = 3 THEN << "O" >>
             ELSE << "U" >>

\* a variant of format_phone_number whose "61" branch slices like the
\* "+61" branch
format_phone_number_slice3(ph) ==
    IF ~Truthy(ph) THEN Empty
    ELSE LET cleaned == Filter(ph, Digits \cup {"+"})
         IN  IF StartsWith(cleaned, S_plus61)
             THEN Caret \o SliceFrom(cleaned, 3) \o S_PRN_PH_61_61 \o SliceFrom(cleaned, 3)
             ELSE IF StartsWith(cleaned, S_61) /\ Len(cleaned) > 10
             THEN Caret \o SliceFrom(cleaned, 3) \o S_PRN_PH_61_61 \o SliceFrom(cleaned, 3)
             ELSE IF StartsWith(cleaned, << "0" >>) /\ Len(cleaned) = 10
             THEN Caret \o SliceFrom(cleaned, 1) \o S_PRN_PH_61_61 \o SliceFrom(cleaned, 1)
             ELSE Caret \o cleaned \o S_PRN_PH

\* a variant of format_phone_number that keeps a "+" only when it leads
format_phone_number_leading_plus(ph) ==
    IF ~Truthy(ph) THEN Empty
    ELSE LET kept == Filter(ph, Digits \cup {"+"})
             cleaned == IF kept = << >> THEN kept
                        ELSE << Head(kept) >> \o Filter(Tail(kept), Digits)
         IN  IF StartsWith(cleaned, S_plus61)
             THEN Caret \o SliceFrom(cleaned, 3) \o S_PRN_PH_61_61 \o SliceFrom(cleaned, 3)
             ELSE IF StartsWith(cleaned, S_61) /\ Len(cleaned) > 10
             THEN Caret \o SliceFrom(cleaned, 2) \o S_PRN_PH_61_61 \o SliceFrom(cleaned, 2)
             ELSE IF StartsWith(cleaned, << "0" >>) /\ Len(cleaned) = 10
             THEN Caret \o SliceFrom(cleaned, 1) \o S_PRN_PH_61_61 \o SliceFrom(cleaned, 1)
             ELSE Caret \o cleaned \o S_PRN_PH

\* format_phone_number
format_phone_number(ph) ==
    IF ~Truthy(ph) THEN Empty
    ELSE LET cleaned == Filter(ph, Digits \cup {"+"})
         IN  IF StartsWith(cleaned, S_plus61)
             THEN Caret \o SliceFrom(cleaned, 3) \o S_PRN_PH_61_61 \o SliceFrom(cleaned, 3)
             ELSE IF StartsWith(cleaned, S_61) /\ Len(cleaned) > 10
             THEN Caret \o SliceFrom(cleaned, 2) \o S_PRN_PH_61_61 \o SliceFrom(cleaned, 2)
             ELSE IF StartsWith(cleaned, << "0" >>) /\ Len(cleaned) = 10
             THEN Caret \o SliceFrom(cleaned, 1) \o S_PRN_PH_61_61 \o SliceFrom(cleaned, 1)
             ELSE Caret \o cleaned \o S_PRN_PH

\* dt.isoformat() of a naive time with no microseconds
isoformat(dt) ==
    Year4(dt.year) \o << "-" >> \o Pad2(dt.month) \o << "-" >> \o Pad2(dt.day) \o << "T" >>
        \o Pad2(dt.hour) \o << ":" >> \o Pad2(dt.minute) \o << ":" >> \o Pad2(dt.second)

\* the date part YYYY-MM-DD of datetime.fromisoformat
IsoDateOk(s) ==
    /\ Len(s) >= 10
    /\ s[5] = "-" /\ s[8] = "-"
    /\ \A i \in {1, 2, 3, 4, 6, 7, 9, 10} : IsDigit(s[i])
    /\ LET y == ToInt(SubSeq(s, 1, 4))
           m == ToInt(SubSeq(s, 6, 7))
           d == ToInt(SubSeq(s, 9, 10))
       IN  y >= 1 /\ m \in 1..12 /\ d >= 1 /\ d <= DaysInMonth(y, m)

\* the time part HH:MM:SS of datetime.fromisoformat, at characters 12..19
IsoTimeOk(s) ==
    /\ Len(s) >= 19
    /\ s[14] = ":" /\ s[17] = ":"
    /\ \A i \in {12, 13, 15, 16, 18, 19} : IsDigit(s[i])
    /\ ToInt(SubSeq(s, 12, 13)) <= 23
    /\ ToInt(SubSeq(s, 15, 16)) <= 59
    /\ ToInt(SubSeq(s, 18, 19)) <= 59

\* the offset +HH:MM or -HH:MM of datetime.fromisoformat, at characters 20..25
IsoOffsetOk(s) ==
    /\ Len(s) = 25
    /\ s[20] \in {"+", "-"} /\ s[23] = ":"
    /\ \A i \in {21, 22, 24, 25} : IsDigit(s[i])
    /\ ToInt(SubSeq(s, 21, 22)) <= 23
    /\ ToInt(SubSeq(s, 24, 25)) <= 59

\* datetime.fromisoformat(s) on the shapes the model draws: YYYY-MM-DD,
\* YYYY-MM-DDTHH:MM:SS and YYYY-MM-DDTHH:MM:SS+HH:MM; [ok |-> FALSE] stands
\* for the ValueError.  tz is the empty string for a naive time, else the
\* offset as %z prints it.
fromisoformat(s) ==
    IF ~IsoDateOk(s) THEN [ok |-> FALSE]
    ELSE LET date == [ok |-> TRUE,
                      year |-> ToInt(SubSeq(s, 1, 4)),
                      month |-> ToInt(SubSeq(s, 6, 7)),
                      day |-> ToInt(SubSeq(s, 9, 10)),
                      hour |-> 0, minute |-> 0, second |-> 0, tz |-> Empty]
         IN  IF Len(s) = 10 THEN date
             ELSE IF ~IsoTimeOk(s) THEN [ok |-> FALSE]
             ELSE LET time == [date EXCEPT !.hour = ToInt(SubSeq(s, 12, 13)),
                                           !.minute = ToInt(SubSeq(s, 15, 16)),
                                           !.second = ToInt(SubSeq(s, 18, 19))]
                  IN  IF Len(s) = 19 THEN time
                      ELSE IF ~IsoOffsetOk(s) THEN [ok |-> FALSE]
                      ELSE [time EXCEPT !.tz = << s[20] >> \o SubSeq(s, 21, 22)
                                                  \o SubSeq(s, 24, 25)]

RECURSIVE ReplaceZ(_)
\* date_str.replace("Z", "+00:00")
ReplaceZ(s) ==
    IF s = << >> THEN << >>
    ELSE (IF Head(s) = "Z" THEN << "+", "0", "0", ":", "0", "0" >> ELSE << Head(s) >>)
             \o ReplaceZ(Tail(s))

\* a variant of format_hl7_datetime whose format has no %z
format_hl7_datetime_no_offset(date_str, t) ==
    LET fallback == strftime_Ymd(Now(t)) \o strftime_HMS(Now(t))
    IN  IF ~IsStr(date_str) THEN fallback
        ELSE LET dt == IF \E i \in 1..Len(date_str) : date_str[i] = "T"
                       THEN fromisoformat(ReplaceZ(date_str))
                       ELSE fromisoformat(date_str)
             IN  IF dt.ok THEN strftime_Ymd(dt) \o strftime_HMS(dt)
                 ELSE fallback

\* format_hl7_datetime(date_str), the clock reading t when the except
\* branch calls datetime.now().  A date_str that is no str makes
\* '"T" in date_str' raise, which the bare except catches.
format_hl7_datetime(date_str, t) ==
    LET fallback == strftime_Ymd(Now(t)) \o strftime_HMS(Now(t))
    IN  IF ~IsStr(date_str) THEN fallback
        ELSE LET dt == IF \E i \in 1..Len(date_str) : date_str[i] = "T"
                       THEN fromisoformat(ReplaceZ(date_str))
                       ELSE fromisoformat(date_str)
             IN  IF dt.ok THEN strftime_Ymd(dt) \o strftime_HMS(dt) \o dt.tz
                 ELSE fallback

(***************************************************************************)
(* The records the model converts.                                         *)
(***************************************************************************)
SeqsUpTo(S, n) == UNION {[1..k -> S] : k \in 0..n}

V_1 == << "1" >>
V_2 == << "2" >>
V_3 == << "3" >>
V_p7 == << "p", "7" >>

IdentifierEntries ==
    {[type |-> [text |-> t], value |-> v] : t \in {S_IHI, S_MRN}, v \in {V_1, V_2}}
        \cup {[value |-> V_3], [type |-> [text |-> S_IHI]], [type |-> Empty, value |-> V_1]}

IdentifierPatients ==
    LET lists == SeqsUpTo(IdentifierEntries, MaxIdentifiers)
    IN  {[identifier |-> l] : l \in lists}
            \cup {[identifier |-> l, id |-> V_p7] : l \in lists}
            \cup {Empty, [id |-> V_p7], [id |-> Empty]}

V_Smith == << "S", "m", "i", "t", "h" >>
V_Jones == << "J", "o", "n", "e", "s" >>
V_Doe == << "D", "o", "e" >>
V_Jane == << "J", "a", "n", "e" >>
V_Ann == << "A", "n", "n" >>
V_Lee == << "L", "e", "e" >>
V_official == << "o", "f", "f", "i", "c", "i", "a", "l" >>

NameEntries ==
    { [use |-> S_old, family |-> V_Smith],
      [use |-> S_usual, family |-> V_Jones, given |-> << V_Jane >>],
      [use |-> S_usual, family |-> V_Smith, given |-> << V_Jane, V_Ann, V_Lee >>,
       prefix |-> << S_Dr >>],
      [family |-> V_Jones, given |-> << >>, prefix |-> << >>],
      [use |-> V_official, given |-> << V_Jane, V_Ann >>],
      Empty }

NamePatients == {[name |-> l] : l \in SeqsUpTo(NameEntries, MaxNames)}

V_0412345678 == << "0", "4", "1", "2", "3", "4", "5", "6", "7", "8" >>
V_07 == << "0", "7" >>
V_05 == << "0", "5" >>
V_09 == << "0", "9" >>
V_mail == << "a", "@", "b" >>

TelecomEntries ==
    { [system |-> S_phone, value |-> V_0412345678, use |-> S_mobile],
      [system |-> S_phone, value |-> V_07, use |-> S_home],
      [system |-> S_email, value |-> V_mail, use |-> S_work],
      [system |-> S_fax, value |-> V_09, use |-> S_work],
      [system |-> S_phone, value |-> Empty, use |-> S_mobile],
      [system |-> S_phone, use |-> S_old],
      [value |-> V_05] }

\* the use values a single phone contact is converted with
UseValues ==
    {S_home, S_work, S_mobile, S_temp, S_temporary, S_old, S_usual, Empty,
     << "H", "O", "M", "E" >>, << "M" >>}

TelecomPatients ==
    {[telecom |-> l] : l \in SeqsUpTo(TelecomEntries, MaxTelecom)}
        \cup {[telecom |-> << [system |-> S_phone, value |-> V_07, use |-> u] >>] :
                  u \in UseValues}
        \cup {[telecom |-> << [system |-> S_phone, value |-> V_07] >>]}

D_1990_01_01 == << "1", "9", "9", "0", "-", "0", "1", "-", "0", "1" >>
D_2000_02_29 == << "2", "0", "0", "0", "-", "0", "2", "-", "2", "9" >>
D_2023_02_29 == << "2", "0", "2", "3", "-", "0", "2", "-", "2", "9" >>
D_1990_13_01 == << "1", "9", "9", "0", "-", "1", "3", "-", "0", "1" >>
D_1985_12_31 == << "1", "9", "8", "5", "-", "1", "2", "-", "3", "1" >>
D_1990_1_5 == << "1", "9", "9", "0", "-", "1", "-", "5" >>
D_not_a_date == << "n", "o", "t", "-", "a", "-", "d", "a", "t", "e" >>
D_slashes == << "0", "1", "/", "0", "2", "/", "1", "9", "9", "0" >>
D_with_time ==
    << "1", "9", "9", "0", "-", "0", "1", "-", "0", "1", "T",
       "1", "0", ":", "3", "0", ":", "0", "0" >>

\* birth dates: valid calendar dates, strings that do not parse, the empty
\* string, and a JSON number (a value that is no str)
BirthDates ==
    {D_1990_01_01, D_2000_02_29, D_1985_12_31, D_2023_02_29, D_1990_13_01,
     D_1990_1_5, D_not_a_date, D_slashes, D_with_time, Empty, JsonNumber}

V_female == << "f", "e", "m", "a", "l", "e" >>
V_Male == << "M", "a", "l", "e" >>
V_other == << "o", "t", "h", "e", "r" >>
V_male == << "m", "a", "l", "e" >>
V_fEmAlE == << "f", "E", "m", "A", "l", "E" >>
V_males == << "m", "a", "l", "e", "s" >>
V_m == << "m" >>

\* genders: the two words in several casings, other words, the empty
\* string, and values that are no str (JSON null, a JSON number)
Genders ==
    {V_female, V_Male, S_FEMALE, V_other, Empty, V_male, S_MALE, V_fEmAlE, V_males, V_m,
     PyNone, JsonNumber}

BirthPatients ==
    {[birthDate |-> b] : b \in BirthDates}
        \cup {[gender |-> g] : g \in Genders}
        \cup {[birthDate |-> b, gender |-> g] : b \in BirthDates, g \in Genders}

V_street == << "1", " ", "H", "i", "g", "h" >>
V_unit == << "U", "4" >>
V_city == << "K", "e", "w" >>
V_VIC == << "V", "I", "C" >>
V_3101 == << "3", "1", "0", "1" >>
V_NZ == << "N", "Z" >>

AddressEntries ==
    { [line |-> << V_street >>, city |-> V_city, state |-> V_VIC, postalCode |-> V_3101,
       country |-> V_NZ],
      [line |-> << V_unit, V_street >>, city |-> V_city, state |-> V_VIC,
       postalCode |-> V_3101],
      [city |-> V_city, postalCode |-> V_3101],
      [line |-> << >>, state |-> V_VIC],
      Empty }

AddressPatients == {[address |-> l] : l \in SeqsUpTo(AddressEntries, MaxAddresses)}

\* the end-to-end record of the specification's section 8
DoePatient ==
    [id |-> V_p7,
     name |-> << [family |-> V_Doe, given |-> << V_Jane >>] >>,
     birthDate |-> D_1990_01_01,
     gender |-> V_female,
     telecom |-> << [system |-> S_phone, value |-> V_0412345678, use |-> S_mobile] >>]

P_0412345678 == V_0412345678
P_plus61412345678 == << "+", "6", "1", "4", "1", "2", "3", "4", "5", "6", "7", "8" >>
P_0398765432 == << "0", "3", "9", "8", "7", "6", "5", "4", "3", "2" >>

JsonPhoneValues == {P_0412345678, P_plus61412345678, P_0398765432, Empty}

JsonPhoneKeys == {"homePhone", "mobilePhone", "workPhone"}

\* dict | {"id": ..., "email": ...}
WithEmail(d, e) ==
    [k \in DOMAIN d \cup {"id", "email"} |->
        IF k = "id" THEN V_p7 ELSE IF k = "email" THEN e ELSE d[k]]

WithId(d) == [k \in DOMAIN d \cup {"id"} |-> IF k = "id" THEN V_p7 ELSE d[k]]

JsonPhonePatients ==
    LET phones == UNION {[K -> JsonPhoneValues] : K \in SUBSET JsonPhoneKeys}
    IN  {WithId(d) : d \in phones} \cup {WithEmail(d, V_mail) : d \in phones}

JsonDobPatients == {[id |-> V_p7, dob |-> b] : b \in BirthDates} \cup {[id |-> V_p7], Empty}

T_utc ==
    << "2", "0", "2", "4", "-", "0", "3", "-", "0", "5", "T",
       "1", "0", ":", "3", "0", ":", "0", "0", "Z" >>
T_offset ==
    << "2", "0", "2", "4", "-", "0", "3", "-", "0", "5", "T",
       "1", "0", ":", "3", "0", ":", "0", "0", "+", "1", "0", ":", "0", "0" >>
T_naive ==
    << "2", "0", "2", "4", "-", "0", "3", "-", "0", "5", "T",
       "1", "0", ":", "3", "0", ":", "0", "0" >>
T_date == << "2", "0", "2", "4", "-", "0", "3", "-", "0", "5" >>

CreatedDateTimes == {T_utc, T_offset, T_naive, T_date, D_not_a_date, Empty, PyNone}

T_west ==
    << "2", "0", "2", "4", "-", "0", "3", "-", "0", "5", "T",
       "1", "0", ":", "3", "0", ":", "0", "0", "-", "0", "5", ":", "3", "0" >>
T_hour_24 ==
    << "2", "0", "2", "4", "-", "0", "3", "-", "0", "5", "T",
       "2", "4", ":", "3", "0", ":", "0", "0", "Z" >>
T_lower_z ==
    << "2", "0", "2", "4", "-", "0", "3", "-", "0", "5", "T",
       "1", "0", ":", "3", "0", ":", "0", "0", "z" >>

\* the values format_hl7_datetime is called with: timestamps with Z, with
\* an offset east and west, without offset, dates, strings that are no ISO
\* date or timestamp, and values that are no str
DateStrInputs ==
    CreatedDateTimes
        \cup {T_west, T_hour_24, T_lower_z, JsonNumber, << "T" >>, D_1990_13_01, D_2023_02_29,
              D_slashes, D_1990_1_5, D_1990_01_01, D_2000_02_29, D_with_time}

JsonDemographics ==
    [id |-> V_p7, lastName |-> V_Doe, firstName |-> V_Jane, middleName |-> PyNone,
     preferredName |-> Empty, titleCode |-> V_1, ethnicityCode |-> V_2,
     usualDoctorId |-> V_3, dob |-> D_1990_01_01, mobilePhone |-> P_0412345678]

JsonOtherPatients ==
    {[JsonDemographics EXCEPT !.dob = c] : c \in {D_1990_01_01, D_with_time}}
        \cup {[k \in DOMAIN JsonDemographics \cup {"createdDateTime", "genderCode"} |->
                  IF k = "createdDateTime" THEN c
                  ELSE IF k = "genderCode" THEN g
                  ELSE JsonDemographics[k]] : c \in CreatedDateTimes, g \in 1..5}

JsonPatients == JsonPhonePatients \cup JsonDobPatients \cup JsonOtherPatients

\* the phone numbers format_phone_number is called with: the three
\* spellings of a national number, with and without punctuation, numbers
\* of no recognised shape, and every string of at most MaxPhoneLen
\* characters over PhoneAlphabet
\* nine-digit national numbers: every two leading digits over 0, 1, 4, 6
\* (the digits the prefixes are made of) before 2345678, and 398765432
Nationals ==
    {<< a, b, "2", "3", "4", "5", "6", "7", "8" >> : a, b \in {"0", "1", "4", "6"}}
        \cup {<< "3", "9", "8", "7", "6", "5", "4", "3", "2" >>}

PhonePrefixes ==
    {<< "0" >>, S_plus61, S_61, Empty, << "+" >>, << "+", "1" >>, << "6" >>,
     << "(", "0" >>, << "+", "6", "1", " " >>, << "0", "0" >>, << "6", "1", "-" >>}

PhoneSuffixes == {Empty, << "9" >>, << " ", "x", "1" >>, << "+" >>}

\* s with a space after its fourth character, as numbers are often typed
Spaced(s) == IF Len(s) > 4 THEN SubSeq(s, 1, 4) \o << " " >> \o SliceFrom(s, 4) ELSE s

PhoneAlphabet == {"0", "6", "1", "+", "-"}

PhoneInputs ==
    {p \o n \o x : p \in PhonePrefixes, n \in Nationals, x \in PhoneSuffixes}
        \cup {Spaced(p \o n) : p \in PhonePrefixes, n \in Nationals}
        \cup {p \o SubSeq(n, 1, 8) : p \in PhonePrefixes, n \in Nationals}
        \cup SeqsUpTo(PhoneAlphabet, MaxPhoneLen)

\* leaf values that contain a delimiter of the encoding
V_1_caret_2 == << "1", "^", "2" >>
V_0_tilde_7 == << "0", "~", "7" >>
V_0_caret_7 == << "0", "^", "7" >>
V_a_tilde_b == << "a", "~", "@", "b" >>
V_K_caret_w == << "K", "^", "w" >>
V_1_amp_High == << "1", "&", "H", "i", "g", "h" >>
V_K_bar_w == << "K", "|", "w" >>
V_0_backslash_7 == << "0", "\\", "7" >>

\* records with one leaf value that contains a delimiter
DelimiterPatients ==
    {[identifier |-> << [value |-> V_1_caret_2] >>], [id |-> V_1_caret_2]}
        \cup {[telecom |-> << [system |-> S_phone, value |-> v, use |-> S_mobile] >>] :
                  v \in {V_0_tilde_7, V_0_caret_7, V_0_backslash_7}}
        \cup {[telecom |-> << [system |-> S_email, value |-> V_a_tilde_b] >>]}
        \cup {[address |-> << [line |-> << l >>, city |-> c] >>] :
                  l \in {V_street, V_1_amp_High}, c \in {V_K_caret_w, V_K_bar_w}}

\* d without the keys outside K
Restrict(d, K) == [k \in DOMAIN d \cap K |-> d[k]]

\* a record with every recognised top-level field, each list with one
\* entry that has every key
FullPatient ==
    [identifier |-> << [type |-> [text |-> S_MRN], value |-> V_1] >>,
     id |-> V_p7,
     name |-> << [use |-> V_official, family |-> V_Doe, given |-> << V_Jane, V_Ann >>,
                  prefix |-> << S_Dr >>] >>,
     birthDate |-> D_1990_01_01,
     gender |-> V_female,
     address |-> << [line |-> << V_street >>, city |-> V_city, state |-> V_VIC,
                     postalCode |-> V_3101, country |-> V_NZ] >>,
     telecom |-> << [system |-> S_phone, value |-> V_0412345678, use |-> S_mobile] >>]

\* the full record with any subset of its top-level fields absent, and
\* with any subset of the keys of one of its list entries absent
SparsePatients ==
    {Restrict(FullPatient, K) : K \in SUBSET (DOMAIN FullPatient)}
        \cup UNION {{[FullPatient EXCEPT ![f] = << Restrict(FullPatient[f][1], K) >>] :
                        K \in SUBSET (DOMAIN FullPatient[f][1])} :
                    f \in {"identifier", "name", "address", "telecom"}}

\* A record carries one group of fields at a time (every other key is
\* absent, which the converter accepts), or is the record of the
\* end-to-end example, a record with every field less some of them, or
\* the record {} with no field at all.
FhirPatients ==
    IdentifierPatients \cup NamePatients \cup TelecomPatients \cup BirthPatients
        \cup AddressPatients \cup SparsePatients \cup DelimiterPatients
        \cup {DoePatient, Empty}

(***************************************************************************)
(* The state.                                                              *)
(***************************************************************************)
VARIABLES
    entry,          \* the entry point invoked: which program runs
    fhir_patient,   \* convert_patient's argument
    patient_data,   \* create_hl7_message's argument
    phone,          \* format_phone_number's argument
    date_str,       \* format_hl7_datetime's argument
    page_size,      \* get_appointments' argument
    args,           \* the command line of a main: pretty, output
    page,           \* get_appointments: the page to request next
    all_appointments,   \* get_appointments: the list collected so far
    requested,      \* the requests sent to the server, in order
    received,       \* the pages the server answered with, in order
    hl7_str,        \* the encoder's output, as a main holds it
    stdout,         \* what a main has printed: one entry per print call
    stderr,         \* what a main has printed to sys.stderr, likewise
    file,           \* what a main has written to its output file
    pc,             \* the position of the invoked entry point
    msg,            \* the Message under construction: its segments, in order
    clock,          \* the system clock, in seconds
    result          \* the value returned

vars ==
    << entry, fhir_patient, patient_data, phone, date_str, page_size, args, page,
       all_appointments, requested, received, hl7_str, stdout, stderr, file, pc, msg, clock,
       result >>

inputs == << entry, fhir_patient, patient_data, phone, date_str, page_size, args >>

\* the state of a run of get_appointments, and of its server
client == << page, all_appointments, requested, received >>

\* the output of a main
cli == << hl7_str, stdout, stderr, file >>

\* the entry points that run the FHIR converter, and the flat-JSON one
FhirEntries == {"convert_patient", "fhir_main"}
JsonEntries == {"create_hl7_message", "json_main"}

\* Segment(name): a segment with no field assigned
Segment(name) == [name |-> name]

\* datetime.now(): the clock may have advanced since it was last read
ClockReads == {t \in 0..MaxClock : t >= clock}

(***************************************************************************)
(* FHIRToHL7Converter.convert_patient, one action per statement of its     *)
(* try block.  An exception inside it is re-raised as ValueError:          *)
(* pc = "raised".                                                          *)
(***************************************************************************)

\* a variant of _create_msh_segment that makes the control id of the time
MshSegment_timed_control_id(patient, t) ==
    LET s1 == SetField(Segment("MSH"), "msh_1", << "|" >>)
        s2 == SetField(s1, "msh_2", S_encoding_chars)
        s3 == SetField(s2, "msh_3", S_sending_app)
        s4 == SetField(s3, "msh_4", S_sending_facility)
        s5 == SetField(s4, "msh_5", S_receiving_app)
        s6 == SetField(s5, "msh_6", S_receiving_facility)
        s7 == SetField(s6, "msh_7", strftime_Ymd(Now(t)) \o strftime_HMS(Now(t)))
        s8 == SetField(s7, "msh_8", Empty)
        s9 == SetField(s8, "msh_9", S_ADT_A08)
        s10 == SetField(s9, "msh_10", strftime_HMS(Now(t)))
        s11 == SetField(s10, "msh_11", << "P" >>)
    IN  SetField(s11, "msh_12", S_version_id)

\* _create_msh_segment, on Message("ADT_A01"), which holds an MSH segment
MshSegment(patient, t) ==
    LET s1 == SetField(Segment("MSH"), "msh_1", << "|" >>)
        s2 == SetField(s1, "msh_2", S_encoding_chars)
        s3 == SetField(s2, "msh_3", S_sending_app)
        s4 == SetField(s3, "msh_4", S_sending_facility)
        s5 == SetField(s4, "msh_5", S_receiving_app)
        s6 == SetField(s5, "msh_6", S_receiving_facility)
        \* strftime("%Y%m%d%H%M%S%z") of a naive time: %z is empty
        s7 == SetField(s6, "msh_7", strftime_Ymd(Now(t)) \o strftime_HMS(Now(t)))
        s8 == SetField(s7, "msh_8", Empty)
        s9 == SetField(s8, "msh_9", S_ADT_A08)
        s10 == SetField(s9, "msh_10", _get_patient_identifier(patient))
        s11 == SetField(s10, "msh_11", << "P" >>)
    IN  SetField(s11, "msh_12", S_version_id)

_create_msh_segment ==
    /\ entry \in FhirEntries /\ pc = "start"
    /\ \E t \in ClockReads :
          /\ clock' = t
          /\ msg' = << MshSegment(fhir_patient, t) >>
    /\ pc' = "evn"
    /\ UNCHANGED << inputs, client, cli, result >>

\* _create_evn_segment
EvnSegment(t) ==
    LET s1 == SetField(Segment("EVN"), "evn_1", S_A08)
        s2 == SetField(s1, "evn_2", strftime_Ymd(Now(t)) \o strftime_HMS(Now(t)))
    IN  SetField(s2, "evn_3", Empty)

_create_evn_segment ==
    /\ entry \in FhirEntries /\ pc = "evn"
    /\ \E t \in ClockReads :
          /\ clock' = t
          /\ msg' = Append(msg, EvnSegment(t))
    /\ pc' = "pid"
    /\ UNCHANGED << inputs, client, cli, result >>

\* _create_pid_segment, "Set ID (1)": pid_1, pid_2, pid_3
PidIdentifier(pid, patient) ==
    LET patient_id == _get_patient_identifier(patient)
        s1 == SetField(pid, "pid_1", << "1" >>)
        s2 == SetField(s1, "pid_2", Empty)
    IN  SetField(s2, "pid_3",
                 patient_id \o Caret \o Caret \o _get_ihi_system \o Caret \o S_Local)

\* a variant of "Patient name (5)" that writes the last given name, not
\* the second, to pid_5_3
PidName_last_given(pid, patient) ==
    LET name == _get_patient_name(patient)
    IN  IF ~Truthy(name) THEN pid
        ELSE LET given_names == Get(name, "given", Empty)
                 s1 == SetField(pid, "pid_5_1", Get(name, "family", Empty))
                 s2 == IF Truthy(given_names)
                       THEN SetField(s1, "pid_5_2",
                                IF Len(given_names) > 0 THEN given_names[1] ELSE Empty)
                       ELSE s1
                 s3 == IF Truthy(given_names)
                       THEN SetField(s2, "pid_5_3",
                                IF Len(given_names) > 1 THEN given_names[Len(given_names)]
                                ELSE Empty)
                       ELSE s2
             IN  SetField(s3, "pid_5_5",
                          IF Truthy(Get(name, "prefix", Empty))
                          THEN Get(name, "prefix", << Empty >>)[1]
                          ELSE Empty)

\* _create_pid_segment, "Patient name (5)"
PidName(pid, patient) ==
    LET name == _get_patient_name(patient)
    IN  IF ~Truthy(name) THEN pid
        ELSE LET given_names == Get(name, "given", Empty)
                 s1 == SetField(pid, "pid_5_1", Get(name, "family", Empty))
                 s2 == IF Truthy(given_names)
                       THEN SetField(s1, "pid_5_2",
                                IF Len(given_names) > 0 THEN given_names[1] ELSE Empty)
                       ELSE s1
                 s3 == IF Truthy(given_names)
                       THEN SetField(s2, "pid_5_3",
                                IF Len(given_names) > 1 THEN given_names[2] ELSE Empty)
                       ELSE s2
             IN  SetField(s3, "pid_5_5",
                          IF Truthy(Get(name, "prefix", Empty))
                          THEN Get(name, "prefix", << Empty >>)[1]
                          ELSE Empty)

\* whether "Birth date (7)" raises: strptime of a value that is no str is
\* a TypeError, which "except ValueError" does not catch
BirthDateRaises(patient) ==
    LET birth_date == Get(patient, "birthDate", Empty)
    IN  Truthy(birth_date) /\ ~IsStr(birth_date)

\* whether "Gender (8)" raises: .upper() of a value that is no str is an
\* AttributeError
GenderRaises(patient) == ~IsStr(Get(patient, "gender", Empty))

\* a variant that reads the gender as patient["gender"], a KeyError when
\* the key is absent
PidRaises_gender_required(patient) ==
    BirthDateRaises(patient) \/ "gender" \notin DOMAIN patient \/ GenderRaises(patient)

\* whether _create_pid_segment raises
PidRaises(patient) == BirthDateRaises(patient) \/ GenderRaises(patient)

\* a variant of "Birth date (7)" whose except branch assigns nothing
PidBirthDate_no_fallback(pid, patient) ==
    LET birth_date == Get(patient, "birthDate", Empty)
    IN  IF ~Truthy(birth_date) THEN pid
        ELSE LET parsed_date == strptime_ymd(birth_date)
             IN  IF parsed_date.ok
                 THEN SetField(pid, "pid_7", strftime_Ymd(parsed_date) \o S_midnight_offset)
                 ELSE pid

\* _create_pid_segment, "Birth date (7)"
PidBirthDate(pid, patient) ==
    LET birth_date == Get(patient, "birthDate", Empty)
    IN  IF ~Truthy(birth_date) THEN pid
        ELSE LET parsed_date == strptime_ymd(birth_date)
             IN  IF parsed_date.ok
                 THEN SetField(pid, "pid_7", strftime_Ymd(parsed_date) \o S_midnight_offset)
                 ELSE SetField(pid, "pid_7", birth_date)

\* _create_pid_segment, "Gender (8)" and "Race (10)"
PidGender(pid, patient) ==
    LET gender == StrUpper(Get(patient, "gender", Empty))
        s1 == SetField(pid, "pid_8",
                       IF gender \in {S_MALE, S_FEMALE} THEN << gender[1] >> ELSE << "U" >>)
    IN  SetField(s1, "pid_10", S_race)

\* _create_pid_segment, "Address (11)"
PidAddress(pid, patient) ==
    LET address == _get_patient_address(patient)
    IN  IF ~Truthy(address) THEN pid
        ELSE LET address_parts ==
                     << IF Truthy(Get(address, "line", Empty))
                        THEN Join(Caret, address["line"]) ELSE Empty,
                        Get(address, "city", Empty),
                        Get(address, "state", Empty),
                        Get(address, "postalCode", Empty),
                        Empty,
                        Empty,
                        Get(address, "country", S_AU) >>
             IN  SetField(pid, "pid_11", Join(Caret, address_parts))

\* _create_pid_segment, "Phone numbers (13)", "Additional phone numbers
\* (14)" and "Marital status (16)"
PidTelecom(pid, patient) ==
    LET telecom == _format_telecom(Get(patient, "telecom", Empty))
        additional_phones == _get_additional_phones(Get(patient, "telecom", Empty))
        s1 == IF Truthy(telecom) THEN SetField(pid, "pid_13", telecom) ELSE pid
        s2 == IF Truthy(additional_phones) THEN SetField(s1, "pid_14", additional_phones)
              ELSE s1
    IN  SetField(s2, "pid_16", << "0" >>)

PidSegment(patient) ==
    PidTelecom(PidAddress(PidGender(PidBirthDate(PidName(
        PidIdentifier(Segment("PID"), patient), patient), patient), patient), patient),
        patient)

_create_pid_segment ==
    /\ entry \in FhirEntries /\ pc = "pid"
    /\ IF PidRaises(fhir_patient)
       THEN pc' = "raised" /\ msg' = msg
       ELSE pc' = "pv1" /\ msg' = Append(msg, PidSegment(fhir_patient))
    /\ UNCHANGED << inputs, client, cli, clock, result >>

\* _create_pv1_segment
Pv1Segment ==
    LET s1 == SetField(Segment("PV1"), "pv1_1", << "1" >>)
        s2 == SetField(s1, "pv1_2", << "N" >>)
    IN  SetField(s2, "pv1_8", S_pv1_8)

\* a variant of _create_pv1_segment that puts the segment first
_create_pv1_segment_first ==
    /\ entry \in FhirEntries /\ pc = "pv1"
    /\ msg' = << Pv1Segment >> \o msg
    /\ pc' = "return"
    /\ UNCHANGED << inputs, client, cli, clock, result >>

_create_pv1_segment ==
    /\ entry \in FhirEntries /\ pc = "pv1"
    /\ msg' = Append(msg, Pv1Segment)
    /\ pc' = "return"
    /\ UNCHANGED << inputs, client, cli, clock, result >>

\* return msg.to_er7(): the message handed to the library's encoder is
\* what is returned; the library's wire encoding is outside the source
convert_patient_return ==
    /\ entry \in FhirEntries /\ pc = "return"
    /\ result' = msg
    /\ pc' = "done"
    /\ UNCHANGED << inputs, client, cli, msg, clock >>

(***************************************************************************)
(* json_to_hl7_converter.create_hl7_message, as one action.                *)
(***************************************************************************)

\* x or ""
OrEmpty(x) == IF x = PyNone \/ ~Truthy(x) THEN Empty ELSE x

\* "Create MSH Segment".  t1 is the clock when the default argument
\* datetime.now().isoformat() is evaluated, t2 when format_hl7_datetime
\* falls back to datetime.now().
JsonMsh(data, t1, t2) ==
    LET s1 == SetField(Segment("MSH"), "msh_1", << "|" >>)
        s2 == SetField(s1, "msh_2", S_encoding_chars)
        s3 == SetField(s2, "msh_3", S_beda_emr)
        s4 == SetField(s3, "msh_4", S_the_practice)
        s5 == SetField(s4, "msh_5", S_viewpoint)
        s6 == SetField(s5, "msh_6", Empty)
        s7 == SetField(s6, "msh_7",
                  format_hl7_datetime(Get(data, "createdDateTime", isoformat(Now(t1))), t2))
        s8 == SetField(s7, "msh_8", Empty)
        s9 == SetField(s8, "msh_9", S_ADT_A08)
        s10 == SetField(s9, "msh_10", Get(data, "id", Empty))
        s11 == SetField(s10, "msh_11", << "P" >>)
    IN  SetField(s11, "msh_12", S_version_id)

\* "Create EVN Segment"
JsonEvn(data, t3, t4) ==
    LET s1 == SetField(Segment("EVN"), "evn_1", S_A08)
        s2 == SetField(s1, "evn_2",
                  format_hl7_datetime(Get(data, "createdDateTime", isoformat(Now(t3))), t4))
    IN  SetField(s2, "evn_3", Empty)

\* whether "Date of birth" raises: fromisoformat of a value that is no str
\* raises, the bare except catches it, and dob.replace raises in turn
JsonRaises(data) ==
    LET dob == Get(data, "dob", Empty)
    IN  Truthy(dob) /\ ~IsStr(dob)

\* "Date of birth"
JsonDob(data) ==
    LET dob == Get(data, "dob", Empty)
    IN  IF ~Truthy(dob) THEN Empty
        ELSE LET dob_dt == fromisoformat(dob)
             IN  IF dob_dt.ok THEN strftime_Ymd(dob_dt) \o strftime_HMS(dob_dt)
                 ELSE Remove(dob, "-")

\* "Phone numbers": the list phone_parts
phone_parts(data) ==
    (IF Truthy(Get(data, "homePhone", Empty))
     THEN << format_phone_number(data["homePhone"]) >> ELSE << >>)
    \o (IF Truthy(Get(data, "mobilePhone", Empty))
        THEN << format_phone_number(data["mobilePhone"]) >> ELSE << >>)
    \o (IF Truthy(Get(data, "workPhone", Empty))
        THEN << format_phone_number(data["workPhone"]) >> ELSE << >>)
    \o (IF Truthy(Get(data, "email", Empty))
        THEN << S_NET_Internet \o data["email"] >> ELSE << >>)

\* "Additional phone (work phone if different from mobile)"; an absent
\* mobilePhone is None, which differs from every work phone
JsonPid14(data) ==
    IF /\ Truthy(Get(data, "workPhone", Empty))
       /\ Get(data, "workPhone", PyNone) # Get(data, "mobilePhone", PyNone)
    THEN format_phone_number(data["workPhone"])
    ELSE Empty

\* "Create PID Segment"
JsonPid(data) ==
    LET s1 == SetField(Segment("PID"), "pid_1", << "1" >>)
        s2 == SetField(s1, "pid_2", Empty)
        s3 == SetField(s2, "pid_3", Get(data, "id", Empty) \o Caret \o Caret \o Caret \o S_Local)
        n1 == SetField(s3, "pid_5_1", OrEmpty(Get(data, "lastName", Empty)))
        n2 == SetField(n1, "pid_5_2", OrEmpty(Get(data, "firstName", Empty)))
        n3 == SetField(n2, "pid_5_3", OrEmpty(Get(data, "middleName", Empty)))
        n4 == SetField(n3, "pid_5_4", OrEmpty(Get(data, "preferredName", Empty)))
        n5 == SetField(n4, "pid_5_5",
                       IF Truthy(Get(data, "titleCode", Empty)) THEN S_Dr ELSE Empty)
        s7 == SetField(n5, "pid_7", JsonDob(data))
        s8 == SetField(s7, "pid_8", map_gender_code(data))
        s10 == SetField(s8, "pid_10", Get(data, "ethnicityCode", Empty) \o S_NHDDV10)
        s11 == SetField(s10, "pid_11", S_json_pid_11)
        s13 == SetField(s11, "pid_13",
                        IF Truthy(phone_parts(data)) THEN Join(Tilde, phone_parts(data))
                        ELSE Empty)
        s14 == SetField(s13, "pid_14", JsonPid14(data))
    IN  SetField(s14, "pid_16", << "0" >>)

\* "Create PV1 Segment"
JsonPv1(data) ==
    LET s1 == SetField(Segment("PV1"), "pv1_1", << "1" >>)
        s2 == SetField(s1, "pv1_2", << "N" >>)
    IN  SetField(s2, "pv1_8", Get(data, "usualDoctorId", Empty) \o S_doctor_suffix)

create_hl7_message ==
    /\ entry \in JsonEntries /\ pc = "start"
    /\ \E t1 \in ClockReads :
         \E t2 \in {t \in 0..MaxClock : t >= t1} :
           \E t3 \in {t \in 0..MaxClock : t >= t2} :
             \E t4 \in {t \in 0..MaxClock : t >= t3} :
               /\ clock' = t4
               /\ IF JsonRaises(patient_data)
                  THEN /\ msg' = << JsonMsh(patient_data, t1, t2) >>
                       /\ pc' = "raised"
                       /\ result' = result
                  ELSE /\ msg' = << JsonMsh(patient_data, t1, t2),
                                    JsonEvn(patient_data, t3, t4),
                                    JsonPid(patient_data),
                                    JsonPv1(patient_data) >>
                       /\ pc' = "done"
                       /\ result' = msg'
    /\ UNCHANGED << inputs, client, cli >>

(***************************************************************************)
(* A call of format_phone_number.                                          *)
(***************************************************************************)
call_format_phone_number ==
    /\ entry = "format_phone_number" /\ pc = "start"
    /\ result' = format_phone_number(phone)
    /\ pc' = "done"
    /\ UNCHANGED << inputs, client, cli, msg, clock >>

(***************************************************************************)
(* MedirecordsProprietaryClient.get_appointments.  The server is the       *)
(* environment: it answers a request with any page, or the request fails.  *)
(***************************************************************************)

\* appointments, as the server lists them
V_appointment_1 == [id |-> V_1]
V_appointment_2 == [id |-> V_2]
V_appointment_3 == [id |-> V_3]

DataLists == {<< >>, << V_appointment_1 >>, << V_appointment_2, V_appointment_3 >>}

\* the pages a server may answer with: with and without 'data', with
\* 'last' true, false or missing
Pages ==
    {[data |-> d, last |-> l] : d \in DataLists, l \in BOOLEAN}
        \cup {[data |-> d] : d \in DataLists}
        \cup {[last |-> l] : l \in BOOLEAN}
        \cup {Empty}

\* page_size: the default and another
PageSizes == {20, 1}

\* the request appointments() sends: its params page and size
Request(p, size) == [page |-> p, size |-> size]

\* "all_appointments = []; page = 0"
get_appointments_start ==
    /\ entry = "get_appointments" /\ pc = "start"
    /\ all_appointments' = << >>
    /\ page' = 0
    /\ pc' = "loop"
    /\ UNCHANGED << inputs, cli, requested, received, msg, clock, result >>

\* a variant of the loop body that tests the flag before it adds the data
get_appointments_page_break_first ==
    /\ entry = "get_appointments" /\ pc = "loop"
    /\ \E response \in Pages :
          /\ Get(response, "last", TRUE) = FALSE => page < MaxPages
          /\ requested' = Append(requested, Request(page, page_size))
          /\ received' = Append(received, response)
          /\ IF Get(response, "last", TRUE)
             THEN /\ pc' = "return" /\ page' = page
                  /\ all_appointments' = all_appointments
             ELSE /\ pc' = "loop" /\ page' = page + 1
                  /\ all_appointments' = all_appointments \o Get(response, "data", << >>)
    /\ UNCHANGED << inputs, cli, msg, clock, result >>

\* one turn of "while True" whose request succeeds: appointments() returns
\* response.json(), the data is added, and the loop breaks on 'last' or
\* goes to the next page.  (The server flags a page as last by page
\* MaxPages at the latest.)
get_appointments_page ==
    /\ entry = "get_appointments" /\ pc = "loop"
    /\ \E response \in Pages :
          /\ Get(response, "last", TRUE) = FALSE => page < MaxPages
          /\ requested' = Append(requested, Request(page, page_size))
          /\ received' = Append(received, response)
          /\ all_appointments' = all_appointments \o Get(response, "data", << >>)
          /\ IF Get(response, "last", TRUE)
             THEN pc' = "return" /\ page' = page
             ELSE pc' = "loop" /\ page' = page + 1
    /\ UNCHANGED << inputs, cli, msg, clock, result >>

\* a variant of the failing turn that catches the failure and returns what
\* was collected
appointments_raises_swallowed ==
    /\ entry = "get_appointments" /\ pc = "loop"
    /\ requested' = Append(requested, Request(page, page_size))
    /\ pc' = "return"
    /\ UNCHANGED << inputs, cli, page, all_appointments, received, msg, clock, result >>

\* one turn of "while True" whose request fails: session.get,
\* raise_for_status or response.json raises inside appointments(), and
\* get_appointments has no handler
appointments_raises ==
    /\ entry = "get_appointments" /\ pc = "loop"
    /\ requested' = Append(requested, Request(page, page_size))
    /\ pc' = "raised"
    /\ UNCHANGED << inputs, cli, page, all_appointments, received, msg, clock, result >>

\* "return all_appointments"
get_appointments_return ==
    /\ entry = "get_appointments" /\ pc = "return"
    /\ result' = all_appointments
    /\ pc' = "done"
    /\ UNCHANGED << inputs, client, cli, msg, clock >>

(***************************************************************************)
(* A call of format_hl7_datetime.  Its bare except catches whatever the    *)
(* try block raises, and the except branch reads the clock.                *)
(***************************************************************************)
call_format_hl7_datetime ==
    /\ entry = "format_hl7_datetime" /\ pc = "start"
    /\ \E t \in ClockReads :
          /\ clock' = t
          /\ result' = format_hl7_datetime(date_str, t)
    /\ pc' = "done"
    /\ UNCHANGED << inputs, client, cli, msg >>

(***************************************************************************)
(* The two command-line tools: main of fhir_to_hl7_converter.py and main   *)
(* of json_to_hl7_converter.py, from the loaded input on.                  *)
(***************************************************************************)
CR == "\r"
LF == "\n"

\* the highest field position, and the highest component position, that
\* the converters assign
MaxFieldNo == 16
MaxComponentNo == 5

SegmentPrefix(seg) ==
    CASE seg.name = "MSH" -> "msh"
      [] seg.name = "EVN" -> "evn"
      [] seg.name = "PID" -> "pid"
      [] seg.name = "PV1" -> "pv1"

SegmentName(seg) ==
    CASE seg.name = "MSH" -> << "M", "S", "H" >>
      [] seg.name = "EVN" -> << "E", "V", "N" >>
      [] seg.name = "PID" -> << "P", "I", "D" >>
      [] seg.name = "PV1" -> << "P", "V", "1" >>

FieldKey(seg, i) == SegmentPrefix(seg) \o "_" \o ToString(i)
ComponentKey(seg, i, j) == FieldKey(seg, i) \o "_" \o ToString(j)

\* the components of field i that were assigned one by one
AssignedComponents(seg, i) == {j \in 1..MaxComponentNo : ComponentKey(seg, i, j) \in DOMAIN seg}

Highest(S) == CHOOSE n \in S : \A m \in S : m <= n

\* the text of field i: what was assigned to it, or its components joined
\* by the component separator
Er7Field(seg, i) ==
    IF FieldKey(seg, i) \in DOMAIN seg THEN seg[FieldKey(seg, i)]
    ELSE IF AssignedComponents(seg, i) = {} THEN Empty
    ELSE Join(Caret, [j \in 1..Highest(AssignedComponents(seg, i)) |->
                         Get(seg, ComponentKey(seg, i, j), Empty)])

LastField(seg) ==
    Highest({0} \cup {i \in 1..MaxFieldNo :
                         FieldKey(seg, i) \in DOMAIN seg \/ AssignedComponents(seg, i) # {}})

RECURSIVE Er7Fields(_, _)
\* the fields from position i on, each after a field separator
Er7Fields(seg, i) ==
    IF i > LastField(seg) THEN Empty
    ELSE << "|" >> \o Er7Field(seg, i) \o Er7Fields(seg, i + 1)

\* one segment in ER7: its name and its fields by position; MSH-1 is the
\* field separator itself and MSH-2 follows it directly
Er7Segment(seg) ==
    IF seg.name = "MSH"
    THEN SegmentName(seg) \o Er7Field(seg, 1) \o Er7Field(seg, 2) \o Er7Fields(seg, 3)
    ELSE SegmentName(seg) \o Er7Fields(seg, 1)

\* msg.to_er7(): the segments in message order, a carriage return between
\* two of them
to_er7(m) == Join(<< CR >>, [k \in 1..Len(m) |-> Er7Segment(m[k])])

\* whether the encoder ends the last segment with a carriage return too is
\* the library's choice: both are allowed for
Er7Tails == {Empty, << CR >>}

\* hl7_message.replace('\r', '\n')
replace_CR_LF(s) == [i \in 1..Len(s) |-> IF s[i] = CR THEN LF ELSE s[i]]

\* line.strip() is not empty
Whitespace == {" ", "\t", LF, CR, "\f"}
strip_nonempty(line) == \E i \in 1..Len(line) : line[i] \notin Whitespace

\* str(n)
str_int(n) == IF n < 10 THEN << DigitSeq[n + 1] >> ELSE Pad2(n)

S_Patient == << "P", "a", "t", "i", "e", "n", "t" >>
V_Observation == << "O", "b", "s", "e", "r", "v", "a", "t", "i", "o", "n" >>
V_out_hl7 == << "o", "u", "t", ".", "h", "l", "7" >>
S_Line == << "L", "i", "n", "e", " " >>
S_colon_space == << ":", " " >>
S_fhir_written ==
    << "H", "L", "7", "v", "2", " ", "m", "e", "s", "s", "a", "g", "e", " ", "w", "r", "i",
       "t", "t", "e", "n", " ", "t", "o", " " >>
S_json_written ==
    << "H", "L", "7", " ", "m", "e", "s", "s", "a", "g", "e", " ", "w", "r", "i", "t", "t",
       "e", "n", " ", "t", "o", " " >>
S_Error ==
    << "E", "r", "r", "o", "r", ":", " " >>
S_not_a_patient ==
    << "E", "r", "r", "o", "r", ":", " ", "I", "n", "p", "u", "t", " ", "f", "i", "l", "e",
       " ", "m", "u", "s", "t", " ", "c", "o", "n", "t", "a", "i", "n", " ", "a", " ", "F",
       "H", "I", "R", " ", "P", "a", "t", "i", "e", "n", "t", " ", "r", "e", "s", "o", "u",
       "r", "c", "e" >>
S_Error_converting ==
    << "E", "r", "r", "o", "r", " ", "c", "o", "n", "v", "e", "r", "t", "i", "n", "g", " ",
       "F", "H", "I", "R", " ", "p", "a", "t", "i", "e", "n", "t", " ", "t", "o", " ", "H",
       "L", "7", "v", "2", ":", " " >>
RECURSIVE pretty_lines(_, _)
\* for i, line in enumerate(lines): if line.strip(): print(f"Line {i+1}: {line}"),
\* from the line at index i on: the arguments of the print calls
pretty_lines(lines, i) ==
    IF i >= Len(lines) THEN << >>
    ELSE (IF strip_nonempty(lines[i + 1])
          THEN << S_Line \o str_int(i + 1) \o S_colon_space \o lines[i + 1] >>
          ELSE << >>)
         \o pretty_lines(lines, i + 1)

\* the parsed command line: --pretty, and the output path or None
CliArgs == [pretty : BOOLEAN, output : {PyNone, V_out_hl7}]

WithResourceType(d, type) ==
    [k \in DOMAIN d \cup {"resourceType"} |-> IF k = "resourceType" THEN type ELSE d[k]]

\* the input files of the FHIR tool: Patient resources, one of them empty
\* and one whose conversion raises, a resource of another type and a
\* document without resourceType
CliFhirPatients ==
    {WithResourceType(DoePatient, S_Patient), WithResourceType(FullPatient, S_Patient),
     WithResourceType(Empty, S_Patient), WithResourceType([gender |-> PyNone], S_Patient),
     WithResourceType(DoePatient, V_Observation), DoePatient}

\* the input files of the flat-JSON tool: a full record, an empty one and
\* one whose conversion raises
CliJsonPatients == {JsonDemographics, Empty, [dob |-> JsonNumber]}

\* "Validate it's a Patient resource"
fhir_main_validate ==
    /\ entry = "fhir_main" /\ pc = "main"
    /\ IF Get(fhir_patient, "resourceType", PyNone) # S_Patient
       THEN /\ stderr' = Append(stderr, S_not_a_patient)
            /\ pc' = "exit_1"
       ELSE /\ stderr' = stderr
            /\ pc' = "start"
    /\ UNCHANGED << inputs, client, hl7_str, stdout, file, msg, clock, result >>

\* "Format output" and "Output result" of the FHIR tool
fhir_formatted_message(hl7_message, pretty) ==
    IF pretty THEN replace_CR_LF(hl7_message) ELSE hl7_message

fhir_main_output ==
    /\ entry = "fhir_main" /\ pc = "done"
    /\ \E tail \in Er7Tails :
          LET hl7_message == to_er7(result) \o tail
              formatted_message == fhir_formatted_message(hl7_message, args.pretty)
          IN  /\ hl7_str' = hl7_message
              /\ IF args.output # PyNone
                 THEN /\ file' = formatted_message
                      /\ stdout' = Append(stdout, S_fhir_written \o args.output)
                 ELSE /\ file' = file
                      /\ stdout' = Append(stdout, formatted_message)
    /\ pc' = "exit_0"
    /\ UNCHANGED << inputs, client, stderr, msg, clock, result >>

\* except Exception as e of the FHIR tool: the message of the ValueError
\* that convert_patient raised; the text of the exception it wraps is the
\* interpreter's and is left out
fhir_main_error ==
    /\ entry = "fhir_main" /\ pc = "raised"
    /\ stderr' = Append(stderr, S_Error \o S_Error_converting)
    /\ pc' = "exit_1"
    /\ UNCHANGED << inputs, client, hl7_str, stdout, file, msg, clock, result >>

\* "Convert to ER7 format" and "Output" of the flat-JSON tool
json_main_output ==
    /\ entry = "json_main" /\ pc = "done"
    /\ \E tail \in Er7Tails :
          LET er7 == to_er7(result) \o tail
          IN  /\ hl7_str' = er7
              /\ IF args.output # PyNone
                 THEN /\ file' = er7
                      /\ stdout' = Append(stdout, S_json_written \o args.output)
                 ELSE /\ file' = file
                      /\ stdout' = stdout \o (IF args.pretty
                                              THEN pretty_lines(Split(er7, CR), 0)
                                              ELSE << er7 >>)
    /\ pc' = "exit_0"
    /\ UNCHANGED << inputs, client, stderr, msg, clock, result >>

\* except Exception as e of the flat-JSON tool; the text of the exception
\* is the interpreter's and is left out
json_main_error ==
    /\ entry = "json_main" /\ pc = "raised"
    /\ stderr' = Append(stderr, S_Error)
    /\ pc' = "exit_1"
    /\ UNCHANGED << inputs, client, hl7_str, stdout, file, msg, clock, result >>

(***************************************************************************)
(* The specification.                                                      *)
(***************************************************************************)
Entries ==
    {"convert_patient", "create_hl7_message", "format_phone_number", "format_hl7_datetime",
     "get_appointments", "fhir_main", "json_main"}

Init ==
    /\ entry \in Entries
    /\ fhir_patient \in (IF entry = "convert_patient" THEN FhirPatients
                         ELSE IF entry = "fhir_main" THEN CliFhirPatients ELSE {Empty})
    /\ patient_data \in (IF entry = "create_hl7_message" THEN JsonPatients
                         ELSE IF entry = "json_main" THEN CliJsonPatients ELSE {Empty})
    /\ phone \in (IF entry = "format_phone_number" THEN PhoneInputs ELSE {Empty})
    /\ date_str \in (IF entry = "format_hl7_datetime" THEN DateStrInputs ELSE {Empty})
    /\ page_size \in (IF entry = "get_appointments" THEN PageSizes ELSE {0})
    /\ args \in (IF entry \in {"fhir_main", "json_main"} THEN CliArgs ELSE {Empty})
    /\ page = 0
    /\ all_appointments = << >>
    /\ requested = << >>
    /\ received = << >>
    /\ hl7_str = PyNone
    /\ stdout = << >>
    /\ stderr = << >>
    /\ file = PyNone
    /\ pc = (IF entry = "fhir_main" THEN "main" ELSE "start")
    /\ msg = << >>
    /\ clock = 0
    /\ result = Empty

Next ==
    \/ _create_msh_segment
    \/ _create_evn_segment
    \/ _create_pid_segment
    \/ _create_pv1_segment
    \/ convert_patient_return
    \/ create_hl7_message
    \/ call_format_phone_number
    \/ call_format_hl7_datetime
    \/ get_appointments_start
    \/ get_appointments_page
    \/ appointments_raises
    \/ get_appointments_return
    \/ fhir_main_validate
    \/ fhir_main_output
    \/ fhir_main_error
    \/ json_main_output
    \/ json_main_error

Spec == Init /\ [][Next]_vars

\* The interpreter runs the statement after the loop: once the loop is
\* left, "return all_appointments" is executed.
SpecLive == Init /\ [][Next]_vars /\ WF_vars(get_appointments_return)

(***************************************************************************)
(* Properties.  What a finished conversion produced is read from result;   *)
(* a field is read as the converter leaves it: its repetitions are the     *)
(* parts between "~", its components the parts between "^".                *)
(***************************************************************************)
FhirDone == entry = "convert_patient" /\ pc = "done"
JsonDone == entry = "create_hl7_message" /\ pc = "done"
PhoneDone == entry = "format_phone_number" /\ pc = "done"

\* the PID segment of the finished message
PID == result[3]
MSH == result[1]

Components(f) == Split(f, "^")
Repetitions(f) == IF f = << >> THEN << >> ELSE Split(f, "~")

\* the least element of a non-empty set of indices
Least(S) == CHOOSE i \in S : \A j \in S : i <= j

KeyOr(d, k, default) == IF k \in DOMAIN d THEN d[k] ELSE default

\* The identifier policy of C1, stated on the record.
C1_Identifiers == KeyOr(fhir_patient, "identifier", << >>)
C1_IhiAt ==
    {i \in 1..Len(C1_Identifiers) :
        /\ "type" \in DOMAIN C1_Identifiers[i]
        /\ "text" \in DOMAIN C1_Identifiers[i]["type"]
        /\ C1_Identifiers[i]["type"]["text"] = << "I", "H", "I" >>}
C1_Resolved ==
    IF C1_IhiAt # {} THEN KeyOr(C1_Identifiers[Least(C1_IhiAt)], "value", << >>)
    ELSE IF Len(C1_Identifiers) > 0 THEN KeyOr(C1_Identifiers[1], "value", << >>)
    ELSE IF "id" \in DOMAIN fhir_patient THEN fhir_patient["id"]
    ELSE << "U", "N", "K", "N", "O", "W", "N" >>

\* C1: the identifier _get_patient_identifier resolves (placed in MSH-10
\* and in the first component of PID-3) is the value of the first
\* identifier whose type is IHI; else the value of the first identifier;
\* else, the list being empty or absent, the record's id; else UNKNOWN.
\* (An identifier with no value resolves to the empty string.)
C1_IdentifierPolicy ==
    /\ (entry = "convert_patient" /\ Len(msg) >= 1)
           => Field(msg[1], "msh_10") = C1_Resolved
    /\ FhirDone => StartsWith(Field(PID, "pid_3"), C1_Resolved \o << "^", "^" >>)

\* C1's case: identifiers [MRN:'1', IHI:'2'] resolve to '2'
C1_Witness ==
    /\ FhirDone
    /\ KeyOr(fhir_patient, "identifier", << >>)
           = << [type |-> [text |-> S_MRN], value |-> V_1],
                [type |-> [text |-> S_IHI], value |-> V_2] >>
    /\ Field(MSH, "msh_10") = << "2" >>

\* The name policy of C2, stated on the record.
C2_Names == KeyOr(fhir_patient, "name", << >>)
C2_UsualAt ==
    {i \in 1..Len(C2_Names) :
        "use" \in DOMAIN C2_Names[i] /\ C2_Names[i]["use"] = << "u", "s", "u", "a", "l" >>}
C2_Selected ==
    IF C2_UsualAt # {} THEN C2_Names[Least(C2_UsualAt)] ELSE C2_Names[1]
C2_Nth(l, n) == IF Len(l) >= n THEN l[n] ELSE << >>

\* C2: _get_patient_name selects the first name entry whose use is
\* 'usual', else the first entry: the name components of PID-5 are those
\* of that entry; with no name list, or an empty one, family, given,
\* middle and prefix are all empty.
C2_NamePolicy ==
    FhirDone =>
        IF Len(C2_Names) = 0
        THEN \A k \in {"pid_5_1", "pid_5_2", "pid_5_3", "pid_5_5"} : Field(PID, k) = << >>
        ELSE /\ Field(PID, "pid_5_1") = KeyOr(C2_Selected, "family", << >>)
             /\ Field(PID, "pid_5_2") = C2_Nth(KeyOr(C2_Selected, "given", << >>), 1)
             /\ Field(PID, "pid_5_3") = C2_Nth(KeyOr(C2_Selected, "given", << >>), 2)
             /\ Field(PID, "pid_5_5") = C2_Nth(KeyOr(C2_Selected, "prefix", << >>), 1)

\* C2's case: names [old:Smith, usual:Jones] resolve to the family name Jones
C2_Witness ==
    /\ FhirDone
    /\ Len(C2_Names) = 2
    /\ C2_Names[1] = [use |-> S_old, family |-> V_Smith]
    /\ KeyOr(C2_Names[2], "use", << >>) = S_usual
    /\ Field(PID, "pid_5_1") = V_Jones

\* A record whose telecom list is one phone contact with a value.
C3_OnePhone ==
    /\ FhirDone
    /\ "telecom" \in DOMAIN fhir_patient
    /\ Len(fhir_patient["telecom"]) = 1
    /\ KeyOr(fhir_patient["telecom"][1], "system", << >>) = << "p", "h", "o", "n", "e" >>
    /\ KeyOr(fhir_patient["telecom"][1], "value", << >>) # << >>
C3_Use == KeyOr(fhir_patient["telecom"][1], "use", << >>)
\* the use code of the contact: what stands between value^ and
\* ^PH^^61^07^value in the field
C3_Value == fhir_patient["telecom"][1]["value"]
C3_Tail == << "^", "P", "H", "^", "^", "6", "1", "^", "0", "7", "^" >> \o C3_Value
C3_UseCode ==
    LET f == Field(PID, "pid_13")
    IN  IF /\ Len(f) >= Len(C3_Value) + 1 + Len(C3_Tail)
           /\ SubSeq(f, 1, Len(C3_Value) + 1) = C3_Value \o << "^" >>
           /\ SubSeq(f, Len(f) - Len(C3_Tail) + 1, Len(f)) = C3_Tail
        THEN SubSeq(f, Len(C3_Value) + 2, Len(f) - Len(C3_Tail))
        ELSE << >>

\* C3 as amended: the use mapper maps home to H, work to W, mobile to M,
\* temp (the FHIR code of a temporary contact) to T and old to O, and every
\* other use value, the word 'temporary' and an absent or empty use
\* included, to PRN.
C3_UseMapping ==
    C3_OnePhone =>
        C3_UseCode =
            CASE C3_Use = << "h", "o", "m", "e" >> -> << "H" >>
              [] C3_Use = << "w", "o", "r", "k" >> -> << "W" >>
              [] C3_Use = << "m", "o", "b", "i", "l", "e" >> -> << "M" >>
              [] C3_Use = << "t", "e", "m", "p" >> -> << "T" >>
              [] C3_Use = << "o", "l", "d" >> -> << "O" >>
              [] OTHER -> << "P", "R", "N" >>

\* C3's case: a contact of use temp is given the code T, and a contact
\* with no use the code PRN
C3_Witness ==
    /\ C3_OnePhone
    /\ C3_Use = S_temp
    /\ C3_UseCode = << "T" >>

\* C3 as claimed: the use value 'temporary' is mapped to T, and every use
\* value outside home, work, mobile, temporary, old to PRN.
C3_Original ==
    C3_OnePhone =>
        C3_UseCode =
            CASE C3_Use = << "h", "o", "m", "e" >> -> << "H" >>
              [] C3_Use = << "w", "o", "r", "k" >> -> << "W" >>
              [] C3_Use = << "m", "o", "b", "i", "l", "e" >> -> << "M" >>
              [] C3_Use = << "t", "e", "m", "p", "o", "r", "a", "r", "y" >> -> << "T" >>
              [] C3_Use = << "o", "l", "d" >> -> << "O" >>
              [] OTHER -> << "P", "R", "N" >>

\* s without its hyphens
NoHyphens(s) == SelectSeq(s, LAMBDA c : c # "-")

\* Birth dates that strptime("%Y-%m-%d") cannot parse, and those that
\* fromisoformat cannot parse: no date at all, a month 13, a 29 February
\* of a common year; a date followed by a time is no "%Y-%m-%d", and a date
\* with one-digit month and day is no ISO date.
C4_FhirUnparseable == {D_not_a_date, D_slashes, D_1990_13_01, D_2023_02_29, D_with_time}
C4_JsonUnparseable == {D_not_a_date, D_slashes, D_1990_13_01, D_2023_02_29, D_1990_1_5}

\* (the gender of the record being a string or absent: a gender of another
\* type stops the conversion after the birth date was placed, see C11)
C4_FhirCase ==
    /\ entry = "convert_patient"
    /\ KeyOr(fhir_patient, "birthDate", << >>) \in C4_FhirUnparseable
    /\ KeyOr(fhir_patient, "gender", << >>) \notin {<< "<None>" >>, << "<int>" >>}
C4_JsonCase ==
    entry = "create_hl7_message" /\ KeyOr(patient_data, "dob", << >>) \in C4_JsonUnparseable

\* C4 as amended: a birth date that cannot be parsed never makes the
\* conversion raise; the FHIR converter puts the input string in PID-7
\* unmodified, character for character, and the flat-JSON converter puts
\* it there with every '-' removed and nothing else changed.
C4_DateFallback ==
    /\ C4_FhirCase =>
          /\ pc # "raised"
          /\ Len(msg) >= 3 => Field(msg[3], "pid_7") = fhir_patient["birthDate"]
    /\ C4_JsonCase =>
          /\ pc # "raised"
          /\ pc = "done" => Field(PID, "pid_7") = NoHyphens(patient_data["dob"])

\* C4's case: the FHIR converter has passed 'not-a-date' through
C4_Witness ==
    /\ FhirDone
    /\ KeyOr(fhir_patient, "birthDate", << >>) = D_not_a_date
    /\ Field(PID, "pid_7") = << "n", "o", "t", "-", "a", "-", "d", "a", "t", "e" >>

\* C4 as claimed: in both converters PID-7 holds the unparseable input
\* unmodified.
C4_Original ==
    /\ C4_FhirCase =>
          /\ pc # "raised"
          /\ Len(msg) >= 3 => Field(msg[3], "pid_7") = fhir_patient["birthDate"]
    /\ C4_JsonCase =>
          /\ pc # "raised"
          /\ pc = "done" => Field(PID, "pid_7") = patient_data["dob"]

\* Valid calendar dates written YYYY-MM-DD (years 1000 to 9999).
C5_ValidDates == {D_1990_01_01, D_2000_02_29, D_1985_12_31}
C5_Midnight == << "0", "0", "0", "0", "0", "0" >>
C5_Offset == << "+", "1", "0", "0", "0" >>

C5_FhirCase ==
    FhirDone /\ KeyOr(fhir_patient, "birthDate", << >>) \in C5_ValidDates
C5_JsonCase ==
    JsonDone /\ KeyOr(patient_data, "dob", << >>) \in C5_ValidDates

C6_Canonical(n) ==
    << "^" >> \o n \o << "^", "P", "R", "N", "^", "P", "H", "^", "^", "6", "1", "^", "6", "1", "^" >>
        \o n

\* C6: for every nine-digit national number n, format_phone_number maps
\* the three spellings '0'+n, '+61'+n and '61'+n to one and the same
\* output, which carries n as its number.
C6_PhoneSpellings ==
    PhoneDone =>
        \A n \in Nationals :
            phone \in {<< "0" >> \o n, << "+", "6", "1" >> \o n, << "6", "1" >> \o n}
                => result = C6_Canonical(n)

\* C6's case: '61412345678' is formatted with the number 412345678
C6_Witness ==
    /\ PhoneDone
    /\ phone = << "6", "1", "4", "1", "2", "3", "4", "5", "6", "7", "8" >>
    /\ Components(result)[2] = << "4", "1", "2", "3", "4", "5", "6", "7", "8" >>
    /\ result = C6_Canonical(<< "4", "1", "2", "3", "4", "5", "6", "7", "8" >>)

\* The digits and '+' characters of the input, in input order.
C7_Cleaned == SelectSeq(phone, LAMBDA c : c \in Digits \cup {"+"})
\* None of the recognised shapes: a +61 prefix, a 61 prefix on more than 10
\* characters, 10 characters starting with 0.
C7_Unrecognised ==
    /\ ~StartsWith(C7_Cleaned, << "+", "6", "1" >>)
    /\ ~(StartsWith(C7_Cleaned, << "6", "1" >>) /\ Len(C7_Cleaned) > 10)
    /\ ~(StartsWith(C7_Cleaned, << "0" >>) /\ Len(C7_Cleaned) = 10)
C7_Number == Components(result)[2]
IsSuffix(t, s) == Len(t) <= Len(s) /\ SubSeq(s, Len(s) - Len(t) + 1, Len(s)) = t

C8_Telecom == KeyOr(fhir_patient, "telecom", << >>)
C8_Contributes(c) ==
    /\ KeyOr(c, "system", << >>) \in {<< "p", "h", "o", "n", "e" >>, << "e", "m", "a", "i", "l" >>}
    /\ KeyOr(c, "value", << >>) # << >>
C8_Kept == SelectSeq(C8_Telecom, C8_Contributes)
C8_Reps == Repetitions(Field(PID, "pid_13"))

\* C8: PID-13 of the FHIR converter has one repetition for each telecom
\* entry whose system is phone or email and whose value is not empty, in
\* the order of the list: a phone as value^use^PH^^61^07^value, an email as
\* value^NET^Internet^value; other entries contribute no repetition.
C8_PrimaryTelecom ==
    FhirDone =>
        /\ Len(C8_Reps) = Len(C8_Kept)
        /\ \A k \in 1..Len(C8_Kept) :
              LET c == Components(C8_Reps[k])
                  v == C8_Kept[k]["value"]
              IN  IF C8_Kept[k]["system"] = << "p", "h", "o", "n", "e" >>
                  THEN Len(c) = 7 /\ c[1] = v /\ c[3] = << "P", "H" >> /\ c[7] = v
                  ELSE Len(c) = 4 /\ c[1] = v /\ c[2] = << "N", "E", "T" >> /\ c[4] = v

\* The values of the telecom list contain no repetition or component
\* separator.
C8_PlainValues ==
    \A k \in 1..Len(C8_Telecom) :
        \A i \in 1..Len(KeyOr(C8_Telecom[k], "value", << >>)) :
            C8_Telecom[k]["value"][i] \notin {"~", "^"}

\* What the code does: C8 holds of every list whose values contain no
\* separator.
C8_PlainTelecom == C8_PlainValues => C8_PrimaryTelecom

\* C8's failing case: one e-mail entry whose value contains the repetition
\* separator occupies three repetitions (see C15)
C8_SplitEntry ==
    /\ FhirDone
    /\ Len(C8_Kept) = 1
    /\ C8_Kept[1]["system"] = << "e", "m", "a", "i", "l" >>
    /\ C8_Kept[1]["value"] = << "a", "~", "@", "b" >>
    /\ Len(C8_Reps) = 3

\* C8 on values without separators: of a fax, a phone and an email, the
\* phone and the email are the two repetitions, in that order
C8_Witness ==
    /\ FhirDone
    /\ Len(C8_Telecom) = 3
    /\ KeyOr(C8_Telecom[1], "system", << >>) = S_fax
    /\ KeyOr(C8_Telecom[2], "system", << >>) = S_phone
    /\ KeyOr(C8_Telecom[3], "system", << >>) = S_email
    /\ Len(C8_Reps) = 2
    /\ Components(C8_Reps[1])[1] = V_07
    /\ Components(C8_Reps[2])[1] = V_mail

\* The phone contacts of the FHIR record as formatted, in list order.
C9_IsPhone(c) ==
    KeyOr(c, "system", << >>) = << "p", "h", "o", "n", "e" >> /\ KeyOr(c, "value", << >>) # << >>
C9_Phones ==
    LET kept == SelectSeq(C8_Telecom, C9_IsPhone)
    IN  [k \in 1..Len(kept) |->
            PhoneContact(kept[k]["value"], _map_telecom_use(KeyOr(kept[k], "use", << >>)))]
C9_Rest(l) == IF l = << >> THEN << >> ELSE Tail(l)
C9_Reps13 == Repetitions(Field(PID, "pid_13"))
C9_Reps14 == Repetitions(Field(PID, "pid_14"))
C9_In(x, l) == \E i \in 1..Len(l) : l[i] = x

\* The phones of the flat record that are present and not empty, formatted,
\* in the order home, mobile, work.
C9_JsonPhone(k) ==
    IF KeyOr(patient_data, k, << >>) # << >>
    THEN << format_phone_number(patient_data[k]) >> ELSE << >>
C9_JsonPhones == C9_JsonPhone("homePhone") \o C9_JsonPhone("mobilePhone") \o C9_JsonPhone("workPhone")
C9_JsonEmail ==
    IF KeyOr(patient_data, "email", << >>) # << >>
    THEN << << "^", "N", "E", "T", "^", "I", "n", "t", "e", "r", "n", "e", "t", "^" >>
               \o patient_data["email"] >>
    ELSE << >>

\* What the code does with the contacts, for comparison with C9.  FHIR
\* converter: PID-14 holds the phone contacts except the first, in source
\* order, and every phone contact, those of PID-14 included, is in PID-13.
\* Flat-JSON converter: PID-13 holds the home, mobile and work phones that
\* are present, in that order, then the email; PID-14 holds the work phone
\* alone when it is present and differs from the mobile phone.  (Values
\* without separators; a value with a separator is C15's case.)
C9_TelecomSplit ==
    /\ (FhirDone /\ C8_PlainValues) =>
          /\ C9_Reps14 = C9_Rest(C9_Phones)
          /\ \A k \in 1..Len(C9_Phones) : C9_In(C9_Phones[k], C9_Reps13)
    /\ JsonDone =>
          /\ C9_Reps13 = C9_JsonPhones \o C9_JsonEmail
          /\ C9_Reps14 =
                IF /\ KeyOr(patient_data, "workPhone", << >>) # << >>
                   /\ ("mobilePhone" \notin DOMAIN patient_data
                          \/ patient_data["mobilePhone"] # patient_data["workPhone"])
                THEN C9_JsonPhone("workPhone")
                ELSE << >>

\* C9's case: of two different phone contacts both are in PID-13 and the
\* second is in PID-14 as well
C9_Witness ==
    /\ FhirDone
    /\ Len(C9_Phones) = 2
    /\ C9_Phones[1] # C9_Phones[2]
    /\ Len(C9_Reps13) = 2
    /\ C9_Reps14 = << C9_Phones[2] >>
    /\ C9_Reps13[2] = C9_Phones[2]

\* C9: in both converters PID-14 holds exactly the phone contacts except
\* the first, in source order, no phone contact after the first is in
\* PID-13, and the first contact of PID-13 is not in PID-14.
C9_Original ==
    /\ FhirDone =>
          /\ C9_Reps14 = C9_Rest(C9_Phones)
          /\ \A k \in 2..Len(C9_Phones) : ~C9_In(C9_Phones[k], C9_Reps13)
          /\ C9_Reps13 # << >> => ~C9_In(C9_Reps13[1], C9_Reps14)
    /\ JsonDone =>
          /\ C9_Reps14 = C9_Rest(C9_JsonPhones)
          /\ \A k \in 2..Len(C9_JsonPhones) : ~C9_In(C9_JsonPhones[k], C9_Reps13)
          /\ C9_Reps13 # << >> => ~C9_In(C9_Reps13[1], C9_Reps14)

\* A FHIR record whose only contact is a phone of use 'mobile', and a flat
\* record whose only contact is its mobile phone.
C10_FhirCase ==
    /\ FhirDone
    /\ Len(C8_Telecom) = 1
    /\ KeyOr(C8_Telecom[1], "system", << >>) = << "p", "h", "o", "n", "e" >>
    /\ KeyOr(C8_Telecom[1], "use", << >>) = << "m", "o", "b", "i", "l", "e" >>
    /\ KeyOr(C8_Telecom[1], "value", << >>) # << >>
C10_JsonCase ==
    /\ JsonDone
    /\ KeyOr(patient_data, "mobilePhone", << >>) # << >>
    /\ \A k \in {"homePhone", "workPhone", "email"} : KeyOr(patient_data, k, << >>) = << >>
C10_Field == Field(PID, "pid_13")

\* C10 as amended: for a patient whose only contact is a phone with use
\* 'mobile', PID-13 of the FHIR converter begins with the number, which the
\* mobile-use code M follows as the next component
\* (number^M^PH^^61^07^number);
\* PID-13 of the flat-JSON converter begins with an empty component
\* followed by the number, and carries the code PRN, not M.
C10_MobileField ==
    /\ C10_FhirCase =>
          C10_Field = C8_Telecom[1]["value"]
                          \o << "^", "M", "^", "P", "H", "^", "^", "6", "1", "^", "0", "7", "^" >>
                          \o C8_Telecom[1]["value"]
    /\ C10_JsonCase =>
          /\ Components(C10_Field)[1] = << >>
          /\ IsSuffix(Components(C10_Field)[2],
                      SelectSeq(patient_data["mobilePhone"], LAMBDA c : c \in Digits \cup {"+"}))
          /\ Components(C10_Field)[3] = << "P", "R", "N" >>

\* C10's case: the record of the end-to-end example, whose PID-13 is
\* 0412345678^M^PH^^61^07^0412345678
C10_Witness ==
    /\ C10_FhirCase
    /\ fhir_patient = DoePatient
    /\ Components(C10_Field)[1] = V_0412345678
    /\ Components(C10_Field)[2] = << "M" >>

\* C10 as claimed: the first characters of PID-13 are the use code M.
C10_Original ==
    (C10_FhirCase \/ C10_JsonCase) => Components(C10_Field)[1] = << "M" >>

\* The gender of the record, where the key is present.
C11_HasGender == "gender" \in DOMAIN fhir_patient
C11_Is(g, lower, upper) ==
    /\ Len(g) = Len(lower)
    /\ \A i \in 1..Len(lower) : g[i] \in {lower[i], upper[i]}
C11_Male(g) == C11_Is(g, << "m", "a", "l", "e" >>, << "M", "A", "L", "E" >>)
C11_Female(g) ==
    C11_Is(g, << "f", "e", "m", "a", "l", "e" >>, << "F", "E", "M", "A", "L", "E" >>)
C11_PidBuilt == entry = "convert_patient" /\ pc \in {"pv1", "return", "done"}
C11_Pid == msg[3]

\* C11: for a record whose birth date does not stop the conversion, the
\* PID segment is built whatever the gender is (computing the sex field
\* never raises), and its sex field is M for 'male', F for 'female' in any
\* casing, U for every other gender value and for an absent gender.
C11_Original ==
    /\ (entry = "convert_patient" /\ ~BirthDateRaises(fhir_patient)) => pc # "raised"
    /\ C11_PidBuilt =>
          Field(C11_Pid, "pid_8") =
              IF C11_HasGender /\ C11_Male(fhir_patient["gender"]) THEN << "M" >>
              ELSE IF C11_HasGender /\ C11_Female(fhir_patient["gender"]) THEN << "F" >>
              ELSE << "U" >>

\* C11's failing case: a record whose gender is JSON null, and no birth
\* date, stops in _create_pid_segment
C11_Witness ==
    /\ entry = "convert_patient"
    /\ pc = "raised"
    /\ C11_HasGender
    /\ fhir_patient["gender"] = << "<None>" >>
    /\ "birthDate" \notin DOMAIN fhir_patient

\* What the code does with a gender that is a string or is absent: the sex
\* field is as C11 says, and the gender stops no conversion.
C11_StringGender ==
    /\ (entry = "convert_patient" /\ ~BirthDateRaises(fhir_patient)
            /\ (C11_HasGender => IsStr(fhir_patient["gender"]))) => pc # "raised"
    /\ C11_PidBuilt =>
          Field(C11_Pid, "pid_8") =
              IF C11_HasGender /\ C11_Male(fhir_patient["gender"]) THEN << "M" >>
              ELSE IF C11_HasGender /\ C11_Female(fhir_patient["gender"]) THEN << "F" >>
              ELSE << "U" >>

\* The names of the segments of the message returned, in order.
C12_Message == result
C12_Names == [k \in 1..Len(C12_Message) |-> C12_Message[k].name]

\* C12: every message produced by either converter consists of the four
\* segments MSH, EVN, PID, PV1, each once and in that order, whatever the
\* record is (the record without any field included); the header is first.
C12_SegmentOrder ==
    (FhirDone \/ JsonDone) =>
        /\ C12_Names = << "MSH", "EVN", "PID", "PV1" >>
        /\ C12_Message[1].name = "MSH"

\* C12's case: the record {} converted by the FHIR converter
C12_Witness ==
    /\ FhirDone
    /\ fhir_patient = << >>
    /\ Len(C12_Message) = 4
    /\ C12_Message[4].name = "PV1"

\* A record all of whose present fields have the type FHIR gives them.
C13_Mapping ==
    /\ entry = "convert_patient"
    /\ "birthDate" \in DOMAIN fhir_patient => IsStr(fhir_patient["birthDate"])
    /\ "gender" \in DOMAIN fhir_patient => IsStr(fhir_patient["gender"])
C13_Absent(k) == k \notin DOMAIN fhir_patient
C13_PidField(k) == IF k \in DOMAIN result[3] THEN result[3][k] ELSE << >>

\* C13: for a record that is a mapping, with any of the recognised
\* top-level fields absent and any keys absent inside its list entries,
\* convert_patient raises nothing and returns a message, in which the data
\* that is missing appears as an empty field or as the default: identifier
\* UNKNOWN when there is neither identifier nor id, sex U without gender.
C13_Permissive ==
    /\ C13_Mapping => pc # "raised"
    /\ (C13_Mapping /\ pc = "done") =>
          /\ Len(result) = 4
          /\ (C13_Absent("identifier") /\ C13_Absent("id")) =>
                /\ Components(C13_PidField("pid_3"))[1] = << "U", "N", "K", "N", "O", "W", "N" >>
                /\ result[1]["msh_10"] = << "U", "N", "K", "N", "O", "W", "N" >>
          /\ C13_Absent("gender") => C13_PidField("pid_8") = << "U" >>
          /\ C13_Absent("name") =>
                \A k \in {"pid_5_1", "pid_5_2", "pid_5_3", "pid_5_5"} : C13_PidField(k) = << >>
          /\ C13_Absent("birthDate") => C13_PidField("pid_7") = << >>
          /\ C13_Absent("address") => C13_PidField("pid_11") = << >>
          /\ C13_Absent("telecom") =>
                C13_PidField("pid_13") = << >> /\ C13_PidField("pid_14") = << >>

\* C13's case: a record that has a name and a telecom and nothing else is
\* converted
C13_Witness ==
    /\ C13_Mapping
    /\ pc = "done"
    /\ DOMAIN fhir_patient = {"name", "telecom"}
    /\ C13_PidField("pid_5_1") = << "D", "o", "e" >>
    /\ C13_PidField("pid_7") = << >>
    /\ C13_PidField("pid_8") = << "U" >>
    /\ Components(C13_PidField("pid_3"))[1] = << "U", "N", "K", "N", "O", "W", "N" >>

\* The message a conversion of the same record produces when the clock
\* reads 0 throughout: the other of the two conversions C14 compares.
C14_FhirAtZero ==
    << MshSegment(fhir_patient, 0), EvnSegment(0), PidSegment(fhir_patient), Pv1Segment >>
C14_JsonAtZero ==
    << JsonMsh(patient_data, 0, 0), JsonEvn(patient_data, 0, 0), JsonPid(patient_data),
       JsonPv1(patient_data) >>
\* a message without its two timestamps
C14_Untimed(m) ==
    [k \in 1..Len(m) |->
        IF k = 1 THEN [f \in DOMAIN m[1] \ {"msh_7"} |-> m[1][f]]
        ELSE IF k = 2 THEN [f \in DOMAIN m[2] \ {"evn_2"} |-> m[2][f]]
        ELSE m[k]]
C14_Stamps == {strftime_Ymd(Now(t)) \o strftime_HMS(Now(t)) : t \in 0..MaxClock}
C14_HasCreated ==
    /\ "createdDateTime" \in DOMAIN patient_data
    /\ patient_data["createdDateTime"] \in {T_utc, T_offset, T_naive, T_date}

\* C14 as amended: two conversions of the same record, run at any two
\* times, produce messages that are identical in every field except the
\* two timestamps MSH-7 and EVN-2.  The FHIR converter sets both to the
\* system time of the conversion; the flat-JSON converter sets them to the
\* system time when the record has no createdDateTime or one that does not
\* parse, and otherwise to the record's createdDateTime, the output then
\* being identical altogether.
C14_Deterministic ==
    /\ FhirDone =>
          /\ C14_Untimed(result) = C14_Untimed(C14_FhirAtZero)
          /\ result[1]["msh_7"] \in C14_Stamps
          /\ result[2]["evn_2"] \in C14_Stamps
    /\ JsonDone =>
          /\ C14_Untimed(result) = C14_Untimed(C14_JsonAtZero)
          /\ IF C14_HasCreated THEN result = C14_JsonAtZero
             ELSE result[1]["msh_7"] \in C14_Stamps /\ result[2]["evn_2"] \in C14_Stamps

\* C14's case: a conversion run when the clock has advanced differs from
\* the conversion at time 0 in its header timestamp and in nothing else
\* but the timestamps
C14_Witness ==
    /\ FhirDone
    /\ fhir_patient = DoePatient
    /\ clock = 1
    /\ result[1]["msh_7"] # C14_FhirAtZero[1]["msh_7"]
    /\ C14_Untimed(result) = C14_Untimed(C14_FhirAtZero)

\* C14 as claimed: the output is the same string whenever the conversion
\* runs.
C14_Original ==
    /\ FhirDone => result = C14_FhirAtZero
    /\ JsonDone => result = C14_JsonAtZero

\* The delimiters of the encoding and its escape character.
C15_Special == {"|", "^", "~", "&", "\\"}
C15_Raw(text, c) == \E i \in 1..Len(text) : text[i] = c
C15_Address == KeyOr(fhir_patient, "address", << >>)
C15_Lines == KeyOr(C15_Address[1], "line", << >>)
C15_Phones == SelectSeq(C8_Telecom, C9_IsPhone)

\* C15: a leaf value of the record that contains a delimiter or the escape
\* character is escaped before it is placed in a field, so the structure of
\* the PID segment is that of a record without such characters: PID-3 has
\* four components; PID-13 has one repetition for each phone or e-mail
\* entry with a value, of seven and four components; PID-14 has one
\* repetition for each phone after the first; PID-11 has one component for
\* each street line (one when there is none) and six more, none of them
\* divided into subcomponents; and no field holds a raw field separator or
\* escape character.
C15_Original ==
    FhirDone =>
        /\ Len(Components(Field(PID, "pid_3"))) = 4
        /\ Len(C8_Reps) = Len(C8_Kept)
        /\ \A k \in 1..Len(C8_Reps) :
              k <= Len(C8_Kept) =>
                  Len(Components(C8_Reps[k]))
                      = IF C8_Kept[k]["system"] = << "p", "h", "o", "n", "e" >> THEN 7 ELSE 4
        /\ Len(C9_Reps14) = IF Len(C15_Phones) > 1 THEN Len(C15_Phones) - 1 ELSE 0
        /\ (Len(C15_Address) > 0 /\ DOMAIN C15_Address[1] # {}) =>
              /\ Len(Components(Field(PID, "pid_11")))
                    = 6 + (IF Len(C15_Lines) > 1 THEN Len(C15_Lines) ELSE 1)
              /\ ~C15_Raw(Field(PID, "pid_11"), "&")
        /\ \A f \in {"pid_3", "pid_11", "pid_13", "pid_14"} :
              ~C15_Raw(Field(PID, f), "|") /\ ~C15_Raw(Field(PID, f), "\\")

\* C15's failing case: the phone number 0~7 is placed as it is, and the one
\* contact occupies three repetitions of PID-13
C15_Witness ==
    /\ FhirDone
    /\ Len(C8_Telecom) = 1
    /\ KeyOr(C8_Telecom[1], "value", << >>) = << "0", "~", "7" >>
    /\ Field(PID, "pid_13")
          = << "0", "~", "7", "^", "M", "^", "P", "H", "^", "^", "6", "1", "^", "0", "7",
               "^", "0", "~", "7" >>
    /\ Len(C8_Reps) = 3

\* The control id of the header and the first component of PID-3.
C16_ControlId == Field(MSH, "msh_10")
C16_PatientId == Components(Field(PID, "pid_3"))[1]

\* C16: in every message of either converter the message control id
\* MSH-10 equals the first component of the patient identifier field PID-3.
C16_Original == (FhirDone \/ JsonDone) => C16_ControlId = C16_PatientId

\* C16's failing case: the identifier 1^2 is the control id, and the first
\* component of PID-3 is 1 (see C15)
C16_Witness ==
    /\ FhirDone
    /\ C16_ControlId = << "1", "^", "2" >>
    /\ C16_PatientId = << "1" >>

\* What the code does: both fields are written from the one resolved
\* identifier, PID-3 being that text followed by the rest of the field;
\* the two are equal whenever the identifier holds no component separator.
C16_SameText ==
    /\ FhirDone => StartsWith(Field(PID, "pid_3"), C16_ControlId \o << "^", "^" >>)
    /\ JsonDone => StartsWith(Field(PID, "pid_3"), C16_ControlId \o << "^", "^", "^" >>)
    /\ ((FhirDone \/ JsonDone) /\ ~C15_Raw(C16_ControlId, "^")) => C16_ControlId = C16_PatientId

\* The inputs of format_hl7_datetime that are an ISO date or timestamp.
Hl7Done == entry = "format_hl7_datetime" /\ pc = "done"
C17_Parseable ==
    {T_utc, T_offset, T_west, T_naive, T_date, D_1990_01_01, D_2000_02_29, D_with_time}
C17_DigitChars == {"0", "1", "2", "3", "4", "5", "6", "7", "8", "9"}
\* the 14 digits YYYYMMDDHHMMSS of an ISO date or timestamp
C17_Digits(s) ==
    IF Len(s) = 10
    THEN SelectSeq(s, LAMBDA c : c \in C17_DigitChars) \o << "0", "0", "0", "0", "0", "0" >>
    ELSE SelectSeq(SubSeq(s, 1, 19), LAMBDA c : c \in C17_DigitChars)
\* the numeric offset of a timestamp: +0000 for a trailing Z, the sign and
\* digits of a trailing +HH:MM or -HH:MM, nothing when it has neither
C17_Offset(s) ==
    IF s[Len(s)] = "Z" THEN << "+", "0", "0", "0", "0" >>
    ELSE IF Len(s) = 25 THEN << s[20], s[21], s[22], s[24], s[25] >>
    ELSE << >>
C17_CurrentTime == strftime_Ymd(Now(clock)) \o strftime_HMS(Now(clock))

C17_Fallback ==
    /\ Hl7Done
    /\ date_str = << "<None>" >>
    /\ clock = 1
    /\ result = << "2", "0", "2", "4", "0", "1", "0", "1", "0", "0", "0", "0", "0", "1" >>

\* A run of get_appointments; the flag and the data of a page.
C18_Running == entry = "get_appointments"
C18_Last(p) == IF "last" \in DOMAIN p THEN p["last"] ELSE TRUE
C18_Data(p) == IF "data" \in DOMAIN p THEN p["data"] ELSE << >>
RECURSIVE C18_Concat(_)
C18_Concat(pages) ==
    IF pages = << >> THEN << >>
    ELSE C18_Concat(SubSeq(pages, 1, Len(pages) - 1)) \o C18_Data(pages[Len(pages)])
C18_Answered == Len(received)

\* The pages so far: requested 0, 1, 2, ... in this order, one request for
\* each; in the loop as long as every page received has its 'last' flag
\* false; out of it at the first page whose flag is true or missing, no
\* page requested after it; the list returned is the concatenation of the
\* 'data' lists of the pages received, in page order.
C18_Pages ==
    C18_Running =>
        /\ \A k \in 1..Len(requested) :
              requested[k]["page"] = k - 1 /\ requested[k]["size"] = page_size
        /\ pc = "loop" =>
              /\ Len(requested) = C18_Answered
              /\ \A k \in 1..C18_Answered : ~C18_Last(received[k])
              /\ page = C18_Answered
        /\ pc \in {"return", "done"} =>
              /\ C18_Answered >= 1
              /\ Len(requested) = C18_Answered
              /\ C18_Last(received[C18_Answered])
              /\ \A k \in 1..(C18_Answered - 1) : ~C18_Last(received[k])
        /\ pc = "done" => result = C18_Concat(received)
        /\ (C18_Answered >= 1 /\ C18_Last(received[C18_Answered])) => pc \in {"return", "done"}

C18_LastReceived ==
    C18_Running /\ C18_Answered >= 1 /\ C18_Last(received[C18_Answered])

\* C18: get_appointments requests pages 0, 1, 2, ... in increasing order,
\* one request per page, continuing while the page's 'last' flag is false;
\* it stops after the first page whose flag is true or missing and returns
\* the concatenation of the 'data' lists of the pages it requested, in page
\* order; once the server has returned a page flagged last the call
\* returns, and it returns in no other case.
C18_Pagination == []C18_Pages /\ (C18_LastReceived ~> (pc = "done"))

\* C18's case: three pages were requested, the third was the first flagged
\* last (it has no flag), and the data of all three was returned
C18_Witness ==
    /\ C18_Running
    /\ pc = "done"
    /\ Len(requested) = 3
    /\ requested[3]["page"] = 2
    /\ "last" \notin DOMAIN received[3]
    /\ C18_Data(received[1]) # << >>
    /\ C18_Data(received[3]) # << >>
    /\ result = C18_Data(received[1]) \o C18_Data(received[2]) \o C18_Data(received[3])

\* C19: when the request for a page fails, get_appointments does not
\* return: the failure reaches the caller, whatever was collected from the
\* pages before; and no page, the failed one included, is requested twice.
C19_FailurePropagates ==
    C18_Running =>
        /\ Len(requested) > C18_Answered => pc = "raised"
        /\ pc = "raised" =>
              /\ Len(requested) = C18_Answered + 1
              /\ result = << >>
        /\ \A i, j \in 1..Len(requested) :
              i # j => requested[i]["page"] # requested[j]["page"]

\* C19's case: the second request failed after the first page had brought
\* appointments; nothing was returned and two requests were sent
C19_Witness ==
    /\ C18_Running
    /\ pc = "raised"
    /\ Len(requested) = 2
    /\ requested[2]["page"] = 1
    /\ all_appointments # << >>
    /\ result = << >>

\* A command-line tool has put out a message: it ended with exit status 0.
C20_Put == entry \in {"fhir_main", "json_main"} /\ pc = "exit_0"

\* The message text a tool has put out: what it wrote to the output file
\* when one was named, else what it printed, the print calls separated by
\* the newline that print ends a call with (the newline after the last
\* call is not counted).
C20_Text == IF args.output # PyNone THEN file ELSE Join(<< LF >>, stdout)

\* the encoder output with every carriage return replaced by a newline and
\* nothing else changed
C20_Pretty == [i \in 1..Len(hl7_str) |-> IF hl7_str[i] = CR THEN LF ELSE hl7_str[i]]

\* C20: in both command-line tools the pretty output equals the encoded
\* message with every carriage return replaced by a newline, no other
\* character added, removed or changed, and the text put out without the
\* pretty option is the encoder output unchanged.
C20_Original ==
    C20_Put => C20_Text = (IF args.pretty THEN C20_Pretty ELSE hl7_str)

\* The FHIR tool does as C20 says, to the file and to the standard output.
C20_FhirTool ==
    (C20_Put /\ entry = "fhir_main") =>
        C20_Text = (IF args.pretty THEN C20_Pretty ELSE hl7_str)

\* the segments of the encoder output, and the positions of those that are
\* not blank
C20_Lines == Split(hl7_str, CR)
C20_Shown == {i \in 1..Len(C20_Lines) : strip_nonempty(C20_Lines[i])}
C20_Nth(k) == CHOOSE i \in C20_Shown : Cardinality({j \in C20_Shown : j <= i}) = k

\* The flat-JSON tool: the file it writes holds the encoder output
\* unchanged, with the pretty option as without; what it prints without
\* the option is the encoder output unchanged; what it prints with the
\* option is one line for each segment that is not blank, in order, made of
\* "Line ", the segment's position counted from 1, ": " and the segment.
C20_JsonTool ==
    (C20_Put /\ entry = "json_main") =>
        IF args.output # PyNone THEN file = hl7_str
        ELSE IF ~args.pretty THEN stdout = << hl7_str >>
        ELSE /\ Len(stdout) = Cardinality(C20_Shown)
             /\ \A k \in 1..Len(stdout) :
                   stdout[k] = S_Line \o str_int(C20_Nth(k)) \o S_colon_space
                                   \o C20_Lines[C20_Nth(k)]

\* C20's failing case: the flat-JSON tool was run with the pretty option
\* and no output file on a full record, and printed four lines, the first
\* of which does not begin with the segment name.
C20_Witness ==
    /\ C20_Put /\ entry = "json_main"
    /\ args.pretty /\ args.output = PyNone
    /\ patient_data = JsonDemographics
    /\ Len(stdout) = 4
    /\ ~StartsWith(stdout[1], << "M", "S", "H" >>)
    /\ StartsWith(hl7_str, << "M", "S", "H" >>)

\* the flat-JSON tool was run with the pretty option and an output file:
\* the file holds carriage returns and no newline
C20_PrettyFile ==
    /\ C20_Put /\ entry = "json_main"
    /\ args.pretty /\ args.output # PyNone
    /\ \E i \in 1..Len(file) : file[i] = CR
    /\ \A i \in 1..Len(file) : file[i] # LF

\* the FHIR tool was run with the pretty option on an encoder output that
\* ends with a carriage return: four newlines were printed, no carriage
\* return
C20_FhirPretty ==
    /\ C20_Put /\ entry = "fhir_main"
    /\ args.pretty /\ args.output = PyNone
    /\ hl7_str[Len(hl7_str)] = CR
    /\ Cardinality({i \in 1..Len(stdout[1]) : stdout[1][i] = LF}) = 4
    /\ \A i \in 1..Len(stdout[1]) : stdout[1][i] # CR

\* A finished FHIR conversion whose selected name entry is not empty.
C21_HasName == FhirDone /\ Len(C2_Names) > 0 /\ C2_Selected # << >>
C21_Given == KeyOr(C2_Selected, "given", << >>)
C21_Family == KeyOr(C2_Selected, "family", << >>)
C21_Prefix == C2_Nth(KeyOr(C2_Selected, "prefix", << >>), 1)

\* the keys of a PID segment that are no component of PID-5
C21_OtherKeys ==
    {"name", "pid_1", "pid_2", "pid_3", "pid_7", "pid_8", "pid_10", "pid_11", "pid_13",
     "pid_14", "pid_16"}

\* C21: at most two given names reach the message: the first given name
\* is component 2 of PID-5 and the second is component 3; no other
\* component is written for a given name, so every given name after the
\* second is dropped; with no given names components 2 and 3 are empty;
\* in every case the family name is component 1 and the first prefix is
\* component 5, and PID-5 reads family^first^second^^prefix.
C21_GivenNames ==
    C21_HasName =>
        /\ Field(PID, "pid_5_2") = C2_Nth(C21_Given, 1)
        /\ Field(PID, "pid_5_3") = C2_Nth(C21_Given, 2)
        /\ (DOMAIN PID \ C21_OtherKeys) \subseteq {"pid_5_1", "pid_5_2", "pid_5_3", "pid_5_5"}
        /\ Field(PID, "pid_5_1") = C21_Family
        /\ Field(PID, "pid_5_5") = C21_Prefix
        /\ Er7Field(PID, 5)
              = C21_Family \o << "^" >> \o C2_Nth(C21_Given, 1) \o << "^" >>
                    \o C2_Nth(C21_Given, 2) \o << "^", "^" >> \o C21_Prefix

\* C21's case: the selected name has the given names Jane, Ann and Lee and
\* the prefix Dr: PID-5 is Smith^Jane^Ann^^Dr and Lee is in no field
C21_Witness ==
    /\ C21_HasName
    /\ Len(C21_Given) = 3
    /\ C21_Given[3] = << "L", "e", "e" >>
    /\ Er7Field(PID, 5)
          = << "S", "m", "i", "t", "h", "^", "J", "a", "n", "e", "^", "A", "n", "n", "^",
               "^", "D", "r" >>
    /\ \A k \in DOMAIN PID \ {"name"} : PID[k] # << "L", "e", "e" >>

\* the selected name has a family name and a prefix and no given names:
\* PID-5 is Doe^^^^Dr
C21_NoGiven ==
    /\ C21_HasName
    /\ C21_Given = << >>
    /\ Er7Field(PID, 5) = << "D", "o", "e", "^", "^", "^", "^", "D", "r" >>
    /\ "pid_5_2" \notin DOMAIN PID

\* A finished FHIR conversion of a record whose first address entry is not
\* empty, and that entry.
C22_Addresses == KeyOr(fhir_patient, "address", << >>)
C22_HasAddress == FhirDone /\ Len(C22_Addresses) > 0 /\ C22_Addresses[1] # << >>
C22_First == C22_Addresses[1]
C22_StreetLines == KeyOr(C22_First, "line", << >>)
C22_City == KeyOr(C22_First, "city", << >>)
C22_State == KeyOr(C22_First, "state", << >>)
C22_PostalCode == KeyOr(C22_First, "postalCode", << >>)
C22_Country == KeyOr(C22_First, "country", << "A", "U" >>)

\* no value of the first address entry holds a component separator
C22_NoCaret(text) == \A i \in 1..Len(text) : text[i] # "^"
C22_Plain ==
    /\ \A i \in 1..Len(C22_StreetLines) : C22_NoCaret(C22_StreetLines[i])
    /\ \A v \in {C22_City, C22_State, C22_PostalCode, C22_Country} : C22_NoCaret(v)

\* the components of PID-11, and the one at position n ("" past the end)
C22_Parts == Split(Field(PID, "pid_11"), "^")
C22_At(n) == IF n <= Len(C22_Parts) THEN C22_Parts[n] ELSE << >>

\* C22: PID-11 is built from the first address entry only, and city,
\* state, postal code and country are at the same component positions for
\* every address, the positions they have for an address of one street
\* line (2, 3, 4 and 7), whether the address has no, one or several street
\* lines; an empty component occupies its position.
C22_Original ==
    (C22_HasAddress /\ C22_Plain) =>
        /\ C22_At(2) = C22_City
        /\ C22_At(3) = C22_State
        /\ C22_At(4) = C22_PostalCode
        /\ C22_At(7) = C22_Country
        /\ Len(C22_Parts) = 7

\* the number of components the street lines take: one for each, and one
\* empty component when there is none
C22_Shift == IF Len(C22_StreetLines) = 0 THEN 1 ELSE Len(C22_StreetLines)

\* What the code does: the street lines take one component each (an empty
\* one when there is none), and city, state, postal code, two empty
\* components and country follow them: their positions move with the
\* number of street lines, and beyond that an empty or absent value keeps
\* its position; entries after the first contribute nothing.
C22_Positions ==
    (C22_HasAddress /\ C22_Plain) =>
        /\ Len(C22_Parts) = C22_Shift + 6
        /\ \A i \in 1..Len(C22_StreetLines) : C22_At(i) = C22_StreetLines[i]
        /\ C22_At(C22_Shift + 1) = C22_City
        /\ C22_At(C22_Shift + 2) = C22_State
        /\ C22_At(C22_Shift + 3) = C22_PostalCode
        /\ C22_At(C22_Shift + 4) = << >>
        /\ C22_At(C22_Shift + 5) = << >>
        /\ C22_At(C22_Shift + 6) = C22_Country

\* C22's failing case: the first address has the two street lines
\* "U4" and "1 High": the second line is at position 2, the city at
\* position 3 and the default country at position 8 of eight
C22_Witness ==
    /\ C22_HasAddress /\ C22_Plain
    /\ Len(C22_StreetLines) = 2
    /\ C22_City # << >>
    /\ C22_At(2) = C22_StreetLines[2]
    /\ C22_At(2) # C22_City
    /\ C22_At(3) = C22_City
    /\ Len(C22_Parts) = 8
    /\ C22_At(8) = << "A", "U" >>

\* two address entries, the second with a city the first does not have:
\* the city component of PID-11 is empty and still in its position
C22_FirstOnly ==
    /\ C22_HasAddress /\ C22_Plain
    /\ Len(C22_Addresses) = 2
    /\ Len(C22_StreetLines) = 0
    /\ C22_City = << >>
    /\ KeyOr(C22_Addresses[2], "city", << >>) # << >>
    /\ Len(C22_Parts) = 7
    /\ C22_At(2) = << >>
    /\ C22_At(3) = C22_State /\ C22_State # << >>

====
